---- MODULE Spec2Model ----
(***************************************************************************)
(* A model of the comic_matcher entity-resolution engine:                  *)
(*   comic_matcher/parser.py   ComicTitleParser                            *)
(*   comic_matcher/matcher.py  ComicMatcher                                *)
(*                                                                         *)
(* Text is modelled character by character: a Python str is a sequence of  *)
(* one-character strings.  Scores (Python floats) are modelled as exact    *)
(* rationals <<numerator, denominator>> in lowest terms.                   *)
(***************************************************************************)
EXTENDS Integers, Sequences, FiniteSets, TLC

(***************************************************************************)
(* Characters                                                              *)
(***************************************************************************)
Digits == {"0", "1", "2", "3", "4", "5", "6", "7", "8", "9"}

LowerSeq ==
  <<"a", "b", "c", "d", "e", "f", "g", "h", "i", "j", "k", "l", "m",
    "n", "o", "p", "q", "r", "s", "t", "u", "v", "w", "x", "y", "z">>

UpperSeq ==
  <<"A", "B", "C", "D", "E", "F", "G", "H", "I", "J", "K", "L", "M",
    "N", "O", "P", "Q", "R", "S", "T", "U", "V", "W", "X", "Y", "Z">>

LowerLetters == {LowerSeq[i] : i \in 1..26}

UpperLetters == {UpperSeq[i] : i \in 1..26}

\* str.lower() on one character
LowerChar(c) ==
  IF c \in UpperLetters
  THEN LowerSeq[CHOOSE i \in 1..26 : UpperSeq[i] = c]
  ELSE c

\* regex class \d
IsDigit(c) == c \in Digits

\* regex class \w
IsWord(c) == c \in LowerLetters \cup UpperLetters \cup Digits \cup {"_"}

\* regex class \s
IsSpace(c) == c \in {" ", "\t", "\n"}

(***************************************************************************)
(* Strings                                                                 *)
(***************************************************************************)
\* `name = value` followed by the statements Body that use name: the value
\* is computed once, at the assignment
Let(value, Body(_)) == Body(value)

\* the same, for the steps of the string functions: the value is computed
\* before the statements that use it are entered
Step(value, Body(_)) == IF value = value THEN Body(value) ELSE Body(value)

\* the least element of a set of numbers, 0 for the empty set
FirstOf(S) == IF S = {} THEN 0 ELSE CHOOSE x \in S : \A y \in S : x <= y

\* str.lower()
LowerStr(s) == [i \in 1..Len(s) |-> LowerChar(s[i])]

\* s[i:] (1-based i)
Tail_(s, i) == SubSeq(s, i, Len(s))

\* the literal pat occurs in s at position i
LitAt(s, i, pat) ==
  /\ i >= 1
  /\ i + Len(pat) - 1 <= Len(s)
  /\ SubSeq(s, i, i + Len(pat) - 1) = pat

\* the literal pat occurs in s at position i, ignoring case (pat is lowercase)
LitAtI(s, i, pat) == LitAt(LowerStr(s), i, pat)

\* `pat in s`
Contains(s, pat) == \E i \in 1..(Len(s) + 1) : LitAt(s, i, pat)

\* position of the first occurrence of pat in s, 0 when there is none
Find(s, pat) ==
  IF Contains(s, pat)
  THEN CHOOSE i \in 1..(Len(s) + 1) :
         /\ LitAt(s, i, pat)
         /\ \A j \in 1..(i - 1) : ~LitAt(s, j, pat)
  ELSE 0

\* str.strip()
LStripPos(s) ==
  IF \A i \in 1..Len(s) : IsSpace(s[i])
  THEN Len(s) + 1
  ELSE CHOOSE i \in 1..Len(s) :
         /\ ~IsSpace(s[i])
         /\ \A j \in 1..(i - 1) : IsSpace(s[j])

RStripPos(s) ==
  IF \A i \in 1..Len(s) : IsSpace(s[i])
  THEN 0
  ELSE CHOOSE i \in 1..Len(s) :
         /\ ~IsSpace(s[i])
         /\ \A j \in (i + 1)..Len(s) : IsSpace(s[j])

Strip(s) == SubSeq(s, LStripPos(s), RStripPos(s))

\* the characters of s that satisfy keep (a function on positions)
FilterPos(s, keep, i) ==
  Step({p \in i..Len(s) : keep[p]}, LAMBDA kept :
    [k \in 1..Cardinality(kept) |->
       s[CHOOSE p \in kept : Cardinality({q \in kept : q <= p}) = k]])

(***************************************************************************)
(* Regular-expression substitution and search.  A pattern is given by the  *)
(* sequence lens, where lens[i] is the length of its match starting at     *)
(* position i of s and 0 when it does not match there (no pattern of the   *)
(* program matches the empty string).                                      *)
(***************************************************************************)
\* re.sub(pattern, rep, s): leftmost non-overlapping matches are replaced
RECURSIVE SubByLens(_, _, _, _)
SubByLens(s, lens, rep, i) ==
  IF i > Len(s) THEN <<>>
  ELSE Step(FirstOf({j \in i..Len(s) : lens[j] > 0}), LAMBDA j :
         IF j = 0 THEN Tail_(s, i)
         ELSE SubSeq(s, i, j - 1) \o rep
                \o SubByLens(s, lens, rep, j + lens[j]))

\* re.search(pattern, s): position of the leftmost match, 0 when none
SearchByLens(lens) ==
  IF \E i \in 1..Len(lens) : lens[i] > 0
  THEN CHOOSE i \in 1..Len(lens) :
         /\ lens[i] > 0
         /\ \A j \in 1..(i - 1) : lens[j] = 0
  ELSE 0

\* str.replace(pat, rep)
LitLens(s, pat) == [i \in 1..Len(s) |-> IF LitAt(s, i, pat) THEN Len(pat) ELSE 0]

Replace(s, pat, rep) == SubByLens(s, LitLens(s, pat), rep, 1)

\* number of consecutive characters from position i that are digits
RECURSIVE DigitRun(_, _)
DigitRun(s, i) ==
  IF i <= Len(s) /\ IsDigit(s[i]) THEN 1 + DigitRun(s, i + 1) ELSE 0

\* number of consecutive characters from position i that are whitespace
RECURSIVE SpaceRun(_, _)
SpaceRun(s, i) ==
  IF i <= Len(s) /\ IsSpace(s[i]) THEN 1 + SpaceRun(s, i + 1) ELSE 0

\* regex \b between positions i-1 and i
WordAt(s, i) == i >= 1 /\ i <= Len(s) /\ IsWord(s[i])

Boundary(s, i) == WordAt(s, i - 1) # WordAt(s, i)

\* a value that is not a str, and whose text holds no number (None, NaN)
NoneVal == <<"<None>">>

\* the int written with the decimal digits of text
IntVal(text) == <<"<int>">> \o text

\* isinstance(v, int)
IsInt(v) == v # <<>> /\ v[1] = "<int>"

\* isinstance(v, str)
IsStr(v) == v # NoneVal /\ ~IsInt(v)

(***************************************************************************)
(* parser.py: ComicTitleParser                                             *)
(***************************************************************************)
common_prefixes ==
  << <<"t", "h", "e">>,
     <<"m", "a", "r", "v", "e", "l", "s">>,
     <<"m", "a", "r", "v", "e", "l", "'", "s">>,
     <<"d", "c">>,
     <<"d", "c", "'", "s">>,
     <<"u", "n", "c", "a", "n", "n", "y">>,
     <<"a", "m", "a", "z", "i", "n", "g">>,
     <<"s", "p", "e", "c", "t", "a", "c", "u", "l", "a", "r">>,
     <<"a", "s", "t", "o", "n", "i", "s", "h", "i", "n", "g">>,
     <<"a", "l", "l", "-", "n", "e", "w">>,
     <<"a", "l", "l", " ", "n", "e", "w">> >>

special_identifiers ==
  << <<"a", "n", "n", "u", "a", "l">>,
     <<"s", "p", "e", "c", "i", "a", "l">>,
     <<"o", "n", "e", "-", "s", "h", "o", "t">>,
     <<"l", "i", "m", "i", "t", "e", "d", " ", "s", "e", "r", "i", "e", "s">>,
     <<"v", "a", "r", "i", "a", "n", "t">>,
     <<"d", "i", "r", "e", "c", "t", "o", "r", "'", "s", " ", "c", "u", "t">>,
     <<"p", "r", "e", "v", "i", "e", "w">>,
     <<"g", "i", "a", "n", "t", "-", "s", "i", "z", "e">> >>

\* year_pattern  \((\d{4})\)
year_pattern(s) ==
  [i \in 1..Len(s) |->
     IF /\ s[i] = "("
        /\ i + 5 <= Len(s)
        /\ \A k \in 1..4 : IsDigit(s[i + k])
        /\ s[i + 5] = ")"
     THEN 6 ELSE 0]

\* length matched by \s*(\d+) from position j, 0 when it fails
SpacesDigits(s, j) ==
  Step(SpaceRun(s, j), LAMBDA sp :
  Step(DigitRun(s, j + sp), LAMBDA d :
    IF d > 0 THEN sp + d ELSE 0))

\* number of digits captured by \s*(\d+) from position j
SpacesDigitsGroup(s, j) == DigitRun(s, j + SpaceRun(s, j))

\* where the head (?:vol\.?|volume) of volume_pattern ends at position i:
\* the position after it, 0 when the pattern does not match at i
VolumeTail(s, i) ==
  LET vol    == <<"v", "o", "l">>
      volume == <<"v", "o", "l", "u", "m", "e">>
      dot    == LitAtI(s, i, vol) /\ i + 3 <= Len(s) /\ s[i + 3] = "."
  IN  IF LitAtI(s, i, vol) /\ dot /\ SpacesDigits(s, i + 4) > 0 THEN i + 4
      ELSE IF LitAtI(s, i, vol) /\ SpacesDigits(s, i + 3) > 0 THEN i + 3
      ELSE IF LitAtI(s, i, volume) /\ SpacesDigits(s, i + 6) > 0 THEN i + 6
      ELSE 0

\* volume_pattern  (?i)(?:vol\.?|volume)\s*(\d+)
volume_pattern(s) ==
  [i \in 1..Len(s) |->
     Step(VolumeTail(s, i), LAMBDA j :
       IF j > 0 THEN (j - i) + SpacesDigits(s, j) ELSE 0)]

\* issue_pattern  #(\d+\.?\d*)
issue_pattern(s) ==
  [i \in 1..Len(s) |->
     LET d1  == DigitRun(s, i + 1)
         dot == IF i + 1 + d1 <= Len(s) /\ s[i + 1 + d1] = "." THEN 1 ELSE 0
         d2  == DigitRun(s, i + 1 + d1 + dot)
     IN  IF s[i] = "#" /\ d1 > 0 THEN 1 + d1 + dot + d2 ELSE 0]

\* (?i)\b<identifier>\b
identifier_pattern(s, ident) ==
  [i \in 1..Len(s) |->
     IF /\ LitAtI(s, i, ident)
        /\ Boundary(s, i)
        /\ Boundary(s, i + Len(ident))
     THEN Len(ident) ELSE 0]

\* the loop of _clean_title over special_identifiers, from the k-th on
RECURSIVE RemoveIdentifiers(_, _)
RemoveIdentifiers(s, k) ==
  IF k > Len(special_identifiers) \/ s = <<>> THEN s
  ELSE RemoveIdentifiers(
         SubByLens(s, identifier_pattern(s, special_identifiers[k]), <<>>, 1),
         k + 1)

\* re.sub(r'\s+', ' ', s)
whitespace_pattern(s) ==
  [i \in 1..Len(s) |-> IF IsSpace(s[i]) THEN SpaceRun(s, i) ELSE 0]

\* ComicTitleParser._clean_title
_clean_title(title) ==
  Step(LowerStr(title), LAMBDA c1 :
  Step(SubByLens(c1, year_pattern(c1), <<>>, 1), LAMBDA c2 :
  Step(SubByLens(c2, volume_pattern(c2), <<>>, 1), LAMBDA c3 :
  Step(RemoveIdentifiers(c3, 1), LAMBDA c4 :
  Step(SubByLens(c4, issue_pattern(c4), <<>>, 1), LAMBDA c5 :
  Step([i \in 1..Len(c5) |->
         IF IsWord(c5[i]) \/ IsSpace(c5[i]) \/ c5[i] = "-"
         THEN c5[i] ELSE " "], LAMBDA c6 :
  Step(SubByLens(c6, whitespace_pattern(c6), <<" ">>, 1), LAMBDA c7 :
    Strip(c7))))))))

\* the special-identifier step of parse: the first identifier of the list
\* (list order) that occurs is taken and removed; 0 when none occurs
FirstSpecial(s) ==
  FirstOf({k \in 1..Len(special_identifiers) :
             SearchByLens(identifier_pattern(s, special_identifiers[k])) > 0})

\* ComicTitleParser._split_title_and_subtitle
_split_title_and_subtitle(title) ==
  Step(Find(title, <<":">>), LAMBDA colon :
  Step(Find(title, <<"(">>), LAMBDA open :
  Step(IF open > 0 THEN Find(Tail_(title, open + 1), <<")">>) ELSE 0, LAMBDA close :
  Step(IF close > 0
      THEN Strip(SubSeq(title, open + 1, open + close - 1))
      ELSE <<>>, LAMBDA sub :
    IF colon > 0
    THEN <<Strip(SubSeq(title, 1, colon - 1)), Strip(Tail_(title, colon + 1))>>
    ELSE IF open > 0 /\ SearchByLens(year_pattern(title)) = 0 /\ close > 0
    THEN <<Strip(SubSeq(title, 1, open - 1)),
           IF volume_pattern(sub) # <<>> /\ volume_pattern(sub)[1] > 0
           THEN <<>> ELSE sub>>
    ELSE <<title, <<>>>>))))

\* ComicTitleParser._normalize_title
_normalize_title(title) ==
  Step(LowerStr(title), LAMBDA lower :
  Step(FirstOf({k \in 1..Len(common_prefixes) :
                 LitAt(lower, 1, common_prefixes[k] \o <<" ">>)}), LAMBDA k :
    IF k = 0 THEN title
    ELSE Tail_(title, Len(common_prefixes[k]) + 2)))

EmptyComponents ==
  [main_title |-> <<>>, volume |-> <<>>, year |-> <<>>,
   subtitle |-> <<>>, special |-> <<>>, clean_title |-> <<>>]

\* ComicTitleParser.parse
parse(title) ==
  IF ~IsStr(title) \/ title = <<>> THEN EmptyComponents
  ELSE
    Let(Strip(title), LAMBDA t0 :
    Let(SearchByLens(year_pattern(t0)), LAMBDA ypos :
    Let(IF ypos > 0 THEN SubSeq(t0, ypos + 1, ypos + 4) ELSE <<>>, LAMBDA year :
    Let(IF ypos > 0
        THEN Strip(SubByLens(t0, year_pattern(t0), <<>>, 1)) ELSE t0, LAMBDA t1 :
    Let(SearchByLens(volume_pattern(t1)), LAMBDA vpos :
    Let(IF vpos > 0 THEN vpos + volume_pattern(t1)[vpos] - 1 ELSE 0, LAMBDA vend :
    Let(IF vpos > 0 THEN VolumeTail(t1, vpos) ELSE 0, LAMBDA vtl :
    Let(IF vpos > 0
        THEN SubSeq(t1, vend - SpacesDigitsGroup(t1, vtl) + 1, vend)
        ELSE <<>>, LAMBDA vol :
    Let(IF vpos > 0
        THEN Strip(SubByLens(t1, volume_pattern(t1), <<>>, 1)) ELSE t1, LAMBDA t2 :
    Let(FirstSpecial(t2), LAMBDA sp :
    Let(IF sp > 0
        THEN Strip(SubByLens(
               t2, identifier_pattern(t2, special_identifiers[sp]), <<>>, 1))
        ELSE t2, LAMBDA t3 :
    Let(_split_title_and_subtitle(t3), LAMBDA pair :
      [main_title  |-> _normalize_title(pair[1]),
       volume      |-> vol,
       year        |-> year,
       subtitle    |-> pair[2],
       special     |-> IF sp > 0 THEN special_identifiers[sp] ELSE <<>>,
       clean_title |-> _clean_title(title)]))))))))))))

\* `s.replace('.', '', 1).isdigit()`
IsNumberText(s) ==
  Let(Find(s, <<".">>), LAMBDA dot :
  Let(IF dot > 0
      THEN SubSeq(s, 1, dot - 1) \o Tail_(s, dot + 1)
      ELSE s, LAMBDA t :
    t # <<>> /\ \A i \in 1..Len(t) : IsDigit(t[i])))

\* the last element of text.split(), <<>> when text.split() is empty
LastWord(text) ==
  Let(RStripPos(text), LAMBDA e :
    IF e = 0 THEN <<>>
    ELSE SubSeq(text,
                CHOOSE b \in 1..e :
                  /\ \A j \in b..e : ~IsSpace(text[j])
                  /\ (b = 1 \/ IsSpace(text[b - 1])),
                e))

\* extract_issue_number trying the trailing number before the # pattern
extract_issue_number_trailing_first(text) ==
  Let(SearchByLens(issue_pattern(text)), LAMBDA ipos :
  Let(LastWord(text), LAMBDA last :
    IF text # <<>> /\ IsNumberText(text) THEN text
    ELSE IF IsNumberText(last) THEN last
    ELSE IF ipos > 0
    THEN SubSeq(text, ipos + 1, ipos + issue_pattern(text)[ipos] - 1)
    ELSE NoneVal))

\* ComicTitleParser.extract_issue_number (None is NoneVal)
extract_issue_number(text) ==
  Let(SearchByLens(issue_pattern(text)), LAMBDA ipos :
  Let(LastWord(text), LAMBDA last :
    IF text # <<>> /\ IsNumberText(text) THEN text
    ELSE IF ipos > 0
    THEN SubSeq(text, ipos + 1, ipos + issue_pattern(text)[ipos] - 1)
    ELSE IF IsNumberText(last) THEN last
    ELSE NoneVal))

(***************************************************************************)
(* Scores: exact rationals <<n, d>> with d > 0, in lowest terms            *)
(***************************************************************************)
RECURSIVE GCD(_, _)
GCD(a, b) == IF b = 0 THEN a ELSE GCD(b, a % b)

Abs(n) == IF n < 0 THEN -n ELSE n

Rat(n, d) == LET g == GCD(Abs(n), d) IN <<n \div g, d \div g>>

RAdd(a, b) == Rat(a[1] * b[2] + b[1] * a[2], a[2] * b[2])

RMul(a, b) == Rat(a[1] * b[1], a[2] * b[2])

\* a / b for b > 0
RDiv(a, b) == Rat(a[1] * b[2], a[2] * b[1])

RGeq(a, b) == a[1] * b[2] >= b[1] * a[2]

RGt(a, b) == a[1] * b[2] > b[1] * a[2]

Zero == <<0, 1>>

One == <<1, 1>>

(***************************************************************************)
(* jellyfish.jaro_winkler_similarity                                       *)
(***************************************************************************)
SetMin(S) == CHOOSE x \in S : \A y \in S : x <= y

Max2(a, b) == IF a >= b THEN a ELSE b

Min2(a, b) == IF a <= b THEN a ELSE b

\* the greedy matching pass: <<matched positions of s1, matched positions of s2>>
RECURSIVE JaroFlags(_, _, _, _, _)
JaroFlags(s1, s2, range, i, acc) ==
  IF i > Len(s1) THEN acc
  ELSE Step({j \in Max2(1, i - range)..Min2(i + range, Len(s2)) :
              j \notin acc[2] /\ s2[j] = s1[i]}, LAMBDA cand :
         IF cand = {} THEN JaroFlags(s1, s2, range, i + 1, acc)
         ELSE JaroFlags(s1, s2, range, i + 1,
                        <<acc[1] \cup {i}, acc[2] \cup {SetMin(cand)}>>))

\* length of the common prefix of s1 and s2, at most lim
RECURSIVE CommonPrefix(_, _, _, _)
CommonPrefix(s1, s2, lim, i) ==
  IF i < lim /\ s1[i + 1] = s2[i + 1]
  THEN CommonPrefix(s1, s2, lim, i + 1) ELSE i

jaro_winkler_similarity(s1, s2) ==
  IF Len(s1) = 0 \/ Len(s2) = 0 THEN Zero
  ELSE
    Step(Max2(0, (Max2(Len(s1), Len(s2)) \div 2) - 1), LAMBDA range :
    Step(JaroFlags(s1, s2, range, 1, <<{}, {}>>), LAMBDA flags :
    Step(Cardinality(flags[1]), LAMBDA common :
    Step(FilterPos(s1, [i \in 1..Len(s1) |-> i \in flags[1]], 1), LAMBDA m1 :
    Step(FilterPos(s2, [i \in 1..Len(s2) |-> i \in flags[2]], 1), LAMBDA m2 :
    Step(Cardinality({k \in 1..common : m1[k] # m2[k]}) \div 2, LAMBDA trans :
    Step(IF common = 0 THEN Zero
        ELSE RDiv(RAdd(RAdd(Rat(common, Len(s1)), Rat(common, Len(s2))),
                       Rat(common - trans, common)),
                  <<3, 1>>), LAMBDA weight :
    Step(CommonPrefix(s1, s2, Min2(Min2(Len(s1), Len(s2)), 4), 0), LAMBDA pre :
      IF common = 0 THEN Zero
      ELSE IF RGt(weight, <<7, 10>>) /\ pre > 0
      THEN RAdd(weight, RMul(Rat(pre, 10), RAdd(One, <<-weight[1], weight[2]>>)))
      ELSE weight))))))))

(***************************************************************************)
(* matcher.py: ComicMatcher, the comparators                               *)
(***************************************************************************)
banned_terms ==
  << <<"m", "a", "r", "v", "e", "l">>,
     <<"c", "o", "m", "i", "c", "s">>,
     <<"v", "o", "l">>,
     <<"c", "o", "m", "i", "c">>,
     <<"b", "o", "o", "k">>,
     <<"d", "i", "r", "e", "c", "t">>,
     <<"e", "d", "i", "t", "i", "o", "n">>,
     <<"n", "e", "w", "s", "t", "a", "n", "d">>,
     <<"v", "a", "r", "i", "a", "n", "t">>,
     <<"p", "o", "l", "y", "b", "a", "g", "g", "e", "d">>,
     <<"s", "e", "a", "l", "e", "d">>,
     <<"f", "o", "i", "l">>,
     <<"e", "p", "i", "l", "o", "g", "u", "e">>,
     <<" ", " ">>,
     <<"n", "e", "w", "s", "s", "t", "a", "n", "d">>,
     <<"v", "f">>,
     <<"n", "m">>,
     <<"c", "o", "n", "d", "i", "t", "i", "o", "n">>,
     <<"u", "n", "r", "e", "a", "d">> >>

separators == << <<":", ":">>, <<"(">> >>

prefixes ==
  << <<"t", "h", "e">>,
     <<"u", "n", "c", "a", "n", "n", "y">>,
     <<"a", "l", "l", "-", "n", "e", "w">>,
     <<"a", "l", "l", " ", "n", "e", "w">>,
     <<"a", "m", "a", "z", "i", "n", "g">>,
     <<"s", "p", "e", "c", "t", "a", "c", "u", "l", "a", "r">> >>

\* `title = title.split(separator)[0]` for each separator, from the k-th on
RECURSIVE SplitSeparators(_, _)
SplitSeparators(s, k) ==
  IF k > Len(separators) THEN s
  ELSE Step(Find(s, separators[k]), LAMBDA pos :
         SplitSeparators(IF pos > 0 THEN SubSeq(s, 1, pos - 1) ELSE s, k + 1))

\* `title = title.replace(term, "")` for each banned term, from the k-th on
RECURSIVE RemoveBanned(_, _)
RemoveBanned(s, k) ==
  IF k > Len(banned_terms) \/ s = <<>> THEN s
  ELSE RemoveBanned(Replace(s, banned_terms[k], <<>>), k + 1)

\* ComicMatcher._clean_title_for_hash
_clean_title_for_hash(title) ==
  IF ~IsStr(title) THEN <<>>
  ELSE
    Step(SplitSeparators(LowerStr(title), 1), LAMBDA t1 :
    Step(RemoveBanned(t1, 1), LAMBDA t2 :
    Step([i \in 1..Len(t2) |->
           (IsWord(t2[i]) \/ IsSpace(t2[i])) /\ ~IsDigit(t2[i])], LAMBDA keep :
      LowerStr(Strip(FilterPos(t2, keep, 1))))))

\* f"{hash_key1}|{hash_key2}"
HashKey(k1, k2) == k1 \o <<"|">> \o k2

\* x_pattern  x-[a-z]+
RECURSIVE LowerRun(_, _)
LowerRun(s, i) ==
  IF i <= Len(s) /\ s[i] \in LowerLetters THEN 1 + LowerRun(s, i + 1) ELSE 0

x_pattern(s) ==
  [i \in 1..Len(s) |->
     IF LitAt(s, i, <<"x", "-">>) /\ LowerRun(s, i + 2) > 0
     THEN 2 + LowerRun(s, i + 2) ELSE 0]

\* x_pattern.findall(s)[0], <<>> when findall is empty
FirstXMatch(s) ==
  Step(SearchByLens(x_pattern(s)), LAMBDA pos :
    IF pos > 0 THEN SubSeq(s, pos, pos + x_pattern(s)[pos] - 1) ELSE <<>>)

\* length matched by  ^<prefix>\s+  (IGNORECASE) on s, 0 when no match
PrefixLen(s, prefix) ==
  IF LitAtI(s, 1, prefix) /\ SpaceRun(s, Len(prefix) + 1) > 0
  THEN Len(prefix) + SpaceRun(s, Len(prefix) + 1)
  ELSE 0

\* the prefix loop of _compare_titles, from the k-th prefix on
RECURSIVE StripPrefixes(_, _, _)
StripPrefixes(clean1, clean2, k) ==
  IF k > Len(prefixes) THEN <<clean1, clean2>>
  ELSE
    Step(prefixes[k], LAMBDA p :
    Step(IF PrefixLen(clean1, p) > 0 /\ PrefixLen(clean2, p) = 0
        THEN Tail_(clean1, PrefixLen(clean1, p) + 1) ELSE clean1, LAMBDA n1 :
    Step(IF PrefixLen(clean2, p) > 0 /\ PrefixLen(n1, p) = 0
        THEN Tail_(clean2, PrefixLen(clean2, p) + 1) ELSE clean2, LAMBDA n2 :
      StripPrefixes(n1, n2, k + 1))))

\* _compare_titles after the cache lookup, without the check of the X-
\* identifiers
LiveTitleScore_no_veto(title1, title2) ==
  Step(parse(title1).clean_title, LAMBDA clean1 :
  Step(parse(title2).clean_title, LAMBDA clean2 :
  Step(StripPrefixes(clean1, clean2, 1), LAMBDA adj :
    IF clean1 = clean2 THEN One
    ELSE jaro_winkler_similarity(adj[1], adj[2]))))

\* _compare_titles after the cache lookup (matcher.py lines 172-199)
LiveTitleScore(title1, title2) ==
  Step(parse(title1).clean_title, LAMBDA clean1 :
  Step(parse(title2).clean_title, LAMBDA clean2 :
  Step(FirstXMatch(clean1), LAMBDA x1 :
  Step(FirstXMatch(clean2), LAMBDA x2 :
  Step(StripPrefixes(clean1, clean2, 1), LAMBDA adj :
    IF clean1 = clean2 THEN One
    ELSE IF x1 # <<>> /\ x2 # <<>> /\ x1 # x2 THEN Zero
    ELSE jaro_winkler_similarity(adj[1], adj[2]))))))

\* str(value)
Str(v) ==
  IF IsStr(v) THEN v
  ELSE IF IsInt(v) THEN SubSeq(v, 2, Len(v))
  ELSE <<"N", "o", "n", "e">>

\* _compare_issues comparing the fields as written, without normalising them
_compare_issues_raw(issue1, issue2) ==
  IF IsStr(issue1) /\ IsStr(issue2) /\ issue1 # <<>> /\ issue1 = issue2
  THEN One ELSE Zero

\* ComicMatcher._compare_issues
_compare_issues(issue1, issue2) ==
  Let(extract_issue_number(Str(issue1)), LAMBDA norm1 :
  Let(extract_issue_number(Str(issue2)), LAMBDA norm2 :
    IF norm1 # NoneVal /\ norm1 # <<>> /\ norm2 # NoneVal /\ norm2 # <<>>
       /\ norm1 = norm2
    THEN One ELSE Zero))

\* the value of a text of decimal digits
RECURSIVE ToNat(_)
ToNat(s) ==
  IF s = <<>> THEN 0
  ELSE 10 * ToNat(SubSeq(s, 1, Len(s) - 1))
       + (CHOOSE n \in 0..9 : ToString(n) = s[Len(s)])

\* int(text): {n}, or {} when the cast raises ValueError
IntOf(s) ==
  Let(Strip(s), LAMBDA t :
  Let(t # <<>> /\ t[1] \in {"+", "-"}, LAMBDA sign :
  Let(IF sign THEN Tail_(t, 2) ELSE t, LAMBDA body :
    IF body # <<>> /\ \A i \in 1..Len(body) : IsDigit(body[i])
    THEN {IF sign /\ t[1] = "-" THEN -ToNat(body) ELSE ToNat(body)}
    ELSE {})))

\* truth value of a year field: None, '' and 0 are false
Truthy(v) ==
  \/ (IsStr(v) /\ v # <<>>)
  \/ (IsInt(v) /\ \E i \in 2..Len(v) : v[i] # "0")

\* the fallback pattern  \b(19|20)\d{2}\b
century_pattern(s) ==
  [i \in 1..Len(s) |->
     IF /\ Boundary(s, i)
        /\ (LitAt(s, i, <<"1", "9">>) \/ LitAt(s, i, <<"2", "0">>))
        /\ DigitRun(s, i + 2) >= 2
        /\ Boundary(s, i + 4)
     THEN 4 ELSE 0]

YearByPattern(v) ==
  Let(Str(v), LAMBDA s :
  Let(SearchByLens(century_pattern(s)), LAMBDA pos :
    IF pos > 0 THEN {ToNat(SubSeq(s, pos, pos + 3))} ELSE {}))

\* the try/except of _compare_years: <<y1, y2>>, each {n} or {} for None
ExtractYears(year1, year2) ==
  IF (Truthy(year1) /\ IntOf(Str(year1)) = {})
     \/ (Truthy(year2) /\ IntOf(Str(year2)) = {})
  THEN <<YearByPattern(year1), YearByPattern(year2)>>
  ELSE <<IF Truthy(year1) THEN IntOf(Str(year1)) ELSE {},
         IF Truthy(year2) THEN IntOf(Str(year2)) ELSE {}>>

classic_decades == {1960, 1970, 1980, 1990}

InClassicDecade(y) == \E decade \in classic_decades : decade <= y /\ y < decade + 10

\* the rules of _compare_years with the reprint rule ahead of the
\* within-two-years rule
YearRules_reprint_first(ys1, ys2) ==
  IF ys1 = {} \/ ys2 = {} THEN <<1, 2>>
  ELSE
    LET y1 == CHOOSE y \in ys1 : TRUE
        y2 == CHOOSE y \in ys2 : TRUE
    IN  IF y1 = y2 THEN One
        ELSE IF \/ (y1 >= 2000 /\ InClassicDecade(y2))
                \/ (y2 >= 2000 /\ InClassicDecade(y1))
        THEN <<7, 10>>
        ELSE IF Abs(y1 - y2) <= 2 THEN <<4, 5>>
        ELSE Zero

\* the rules of _compare_years scoring a missing year as a mismatch
YearRules_missing_zero(ys1, ys2) ==
  IF ys1 = {} \/ ys2 = {} THEN Zero
  ELSE
    LET y1 == CHOOSE y \in ys1 : TRUE
        y2 == CHOOSE y \in ys2 : TRUE
    IN  IF y1 = y2 THEN One
        ELSE IF Abs(y1 - y2) <= 2 THEN <<4, 5>>
        ELSE IF \/ (y1 >= 2000 /\ InClassicDecade(y2))
                \/ (y2 >= 2000 /\ InClassicDecade(y1))
        THEN <<7, 10>>
        ELSE Zero

\* the rules of _compare_years on the extracted years (lines 245-264)
YearRules(ys1, ys2) ==
  IF ys1 = {} \/ ys2 = {} THEN <<1, 2>>
  ELSE
    LET y1 == CHOOSE y \in ys1 : TRUE
        y2 == CHOOSE y \in ys2 : TRUE
    IN  IF y1 = y2 THEN One
        ELSE IF Abs(y1 - y2) <= 2 THEN <<4, 5>>
        ELSE IF \/ (y1 >= 2000 /\ InClassicDecade(y2))
                \/ (y2 >= 2000 /\ InClassicDecade(y1))
        THEN <<7, 10>>
        ELSE Zero

\* ComicMatcher._compare_years
_compare_years(year1, year2) ==
  Let(ExtractYears(year1, year2), LAMBDA ys : YearRules(ys[1], ys[2]))

(***************************************************************************)
(* The inputs of the model                                                 *)
(***************************************************************************)
T_XMen == <<"X", "-", "M", "e", "n">>

T_XMen91 == <<"X", "-", "M", "e", "n", " ", "(", "1", "9", "9", "1", ")">>

T_xmen91 == <<"x", "-", "m", "e", "n", " ", "(", "1", "9", "9", "1", ")">>

T_Uncanny == <<"U", "n", "c", "a", "n", "n", "y", " ", "X", "-", "M", "e", "n">>

T_XForce == <<"X", "-", "F", "o", "r", "c", "e">>

T_Wolverine == <<"W", "o", "l", "v", "e", "r", "i", "n", "e">>

\* the titles the title comparator is called with
Titles == {T_XMen, T_XMen91, T_xmen91, T_Uncanny, T_XForce, T_Wolverine}

T_Dots == <<".", ".", ".">>

\* title fields that are empty, not a str, or hold no word
MalformedTitles == {<<>>, NoneVal, IntVal(<<"5">>), T_Dots}

T_XMen85 == <<"X", "-", "M", "e", "n", " ", "(", "1", "9", "8", "5", ")">>

\* a title whose year is neither that of T_XMen91 nor within two years of it
OverrideTitles == {T_XMen85}

\* every title of the model
AllTitles == Titles \cup MalformedTitles \cup OverrideTitles

T_MarvelUniverse ==
  <<"M", "a", "r", "v", "e", "l", " ", "U", "n", "i", "v", "e", "r", "s", "e",
    " ", "V", "s", " ", "W", "o", "l", "v", "e", "r", "i", "n", "e">>

T_MarvelVersus ==
  <<"M", "a", "r", "v", "e", "l", " ", "V", "e", "r", "s", "u", "s", " ",
    "D", "C">>

\* titles of two different series that read alike
SeriesTitles == {T_MarvelUniverse, T_MarvelVersus}

T_XMenSomething ==
  <<"X", "-", "M", "e", "n", ":", " ", "S", "o", "m", "e", "t", "h", "i", "n", "g">>

T_XForceSomethingElse ==
  <<"X", "-", "F", "o", "r", "c", "e", ":", " ", "S", "o", "m", "e", "t", "h",
    "i", "n", "g", " ", "E", "l", "s", "e">>

\* titles of two X- brands with alike text after the brand, and the bare
\* and prefixed brand titles
BrandTitles ==
  {T_XMenSomething, T_XForceSomethingElse, T_XMen, T_XForce, T_Uncanny,
   T_Wolverine}

T_AllNewUncanny ==
  <<"A", "l", "l", "-", "N", "e", "w", " ", "U", "n", "c", "a", "n", "n", "y",
    " ", "X", "-", "M", "e", "n">>

\* a title with no, one and two of the prefixes of _compare_titles
PrefixTitles == {T_XMen, T_Uncanny, T_AllNewUncanny}

T_MarvelComics5 ==
  <<"M", "a", "r", "v", "e", "l", " ", "C", "o", "m", "i", "c", "s", " ", "5">>

\* titles with a hash key, and titles made of banned terms, digits or
\* punctuation, or no str at all, whose hash key is empty
FrameTitles == {T_XMen, T_XForce, T_Dots, T_MarvelComics5, NoneVal}

\* the titles that are only compared within their own family
FamilyTitles == SeriesTitles \cup BrandTitles \cup PrefixTitles \cup FrameTitles

\* the pairs of titles the title comparator is called with
TitlePairs ==
  (AllTitles \X AllTitles) \cup (SeriesTitles \X SeriesTitles)
    \cup (BrandTitles \X BrandTitles) \cup (PrefixTitles \X PrefixTitles)

\* the titles update_fuzzy_hash is called with
UpdateTitles == {T_XMen, T_xmen91, T_XForce}

\* the scores update_fuzzy_hash is called with
SimValues == {<<1, 5>>, <<9, 10>>}

\* the issue fields the issue comparator is called with
IssueInputs ==
  {<<"#", "1", "4", "2">>, <<"1", "4", "2">>, <<"A", "n", "n", "u", "a", "l">>,
   <<"S", "p", "e", "c", "i", "a", "l">>, <<>>, <<"5">>, NoneVal}

\* the year fields the year comparator is called with
YearInputs ==
  {<<"2", "0", "1", "0">>, <<"2", "0", "1", "2">>, <<"1", "9", "8", "5">>,
   <<"1", "9", "5", "0">>, <<"2", "0", "0", "1">>, <<"1", "9", "9", "9">>,
   <<>>, NoneVal}

\* the catalogue the source and target collections are drawn from
Catalogue ==
  << [title |-> T_XMen91, issue |-> <<"1">>],
     [title |-> T_xmen91, issue |-> <<"2">>],
     [title |-> T_XForce, issue |-> <<"#", "1">>],
     [title |-> T_XMen,   issue |-> <<"2">>] >>

\* records with a missing or malformed title or issue, beside a complete one
FieldCatalogue ==
  << [title |-> T_XMen91, issue |-> <<"1">>],
     [title |-> NoneVal,  issue |-> IntVal(<<"1">>)],
     [title |-> T_XMen,   issue |-> NoneVal],
     [title |-> T_Dots,   issue |-> <<>>] >>

\* records whose titles differ in their year, or only meet in the cache
OverrideCatalogue ==
  << [title |-> T_XMen91, issue |-> <<"1">>],
     [title |-> T_XMen85, issue |-> <<"1">>],
     [title |-> T_XForce, issue |-> <<"#", "1">>],
     [title |-> T_XMen,   issue |-> <<"2">>] >>

\* the records of the basic example, and one with two prefixes
PrefixCatalogue ==
  << [title |-> T_Uncanny,       issue |-> <<"1", "4", "2">>],
     [title |-> T_XMen,          issue |-> <<"1", "4", "2">>],
     [title |-> T_Uncanny,       issue |-> <<"1", "4", "1">>],
     [title |-> T_AllNewUncanny, issue |-> <<"1", "4", "2">>] >>

\* records of two different series that carry the same issue numbers
SeriesCatalogue ==
  << [title |-> T_MarvelUniverse, issue |-> <<"2">>],
     [title |-> T_MarvelUniverse, issue |-> <<"3">>],
     [title |-> T_MarvelVersus,   issue |-> <<"2">>],
     [title |-> T_MarvelVersus,   issue |-> <<"3">>] >>

\* the scores a special case forces on a pair of titles
ForcedValues == {<<9, 10>>, One}

\* the issue fields of records with a missing or malformed issue
FieldIssues == IssueInputs \cup {IntVal(<<"5">>)}

\* the year fields of records with a missing or malformed year
FieldYears ==
  {<<"2", "0", "1", "0">>, <<"1", "9", "8", "5">>, IntVal(<<"2", "0", "1", "0">>),
   <<"A", "n", "n", "u", "a", "l">>, <<>>, NoneVal}

\* the issue texts extract_issue_number is called with: a head, a middle
\* and a tail, each possibly empty
IssueHeads ==
  {<<>>, <<"#">>, <<"1">>, <<"N", "o", " ">>,
   <<"X", "-", "M", "e", "n", " ", "#">>}

IssueMiddles ==
  {<<>>, <<"1", "2">>, <<"1", ".", "5">>, <<".">>, <<"#", "7">>}

IssueTails ==
  {<<>>, <<" ", "3">>, <<" ", "3", ".", "5">>, <<" ", "x">>, <<" ">>}

IssueTexts ==
  {h \o m \o t : h \in IssueHeads, m \in IssueMiddles, t \in IssueTails}

\* largest source collection, largest target collection, largest cache
MaxSource == 1

MaxTarget == 2

MaxEntries == 3

\* the selections of at most n catalogue records, in catalogue order
RECURSIVE SeqOfSet(_)
SeqOfSet(S) ==
  IF S = {} THEN <<>>
  ELSE LET k == SetMin(S) IN <<Catalogue[k]>> \o SeqOfSet(S \ {k})

Collections(n) ==
  {SeqOfSet(S) : S \in {X \in SUBSET (1..Len(Catalogue)) :
                          X # {} /\ Cardinality(X) <= n}}

RECURSIVE FieldSeqOfSet(_)
FieldSeqOfSet(S) ==
  IF S = {} THEN <<>>
  ELSE LET k == SetMin(S) IN <<FieldCatalogue[k]>> \o FieldSeqOfSet(S \ {k})

\* the selections of at most n records of the field catalogue
FieldCollections(n) ==
  {FieldSeqOfSet(S) : S \in {X \in SUBSET (1..Len(FieldCatalogue)) :
                               X # {} /\ Cardinality(X) <= n}}

RECURSIVE OverrideSeqOfSet(_)
OverrideSeqOfSet(S) ==
  IF S = {} THEN <<>>
  ELSE LET k == SetMin(S)
       IN  <<OverrideCatalogue[k]>> \o OverrideSeqOfSet(S \ {k})

\* the selections of at most n records of the override catalogue
OverrideCollections(n) ==
  {OverrideSeqOfSet(S) : S \in {X \in SUBSET (1..Len(OverrideCatalogue)) :
                                  X # {} /\ Cardinality(X) <= n}}

RECURSIVE SeriesSeqOfSet(_)
SeriesSeqOfSet(S) ==
  IF S = {} THEN <<>>
  ELSE LET k == SetMin(S)
       IN  <<SeriesCatalogue[k]>> \o SeriesSeqOfSet(S \ {k})

\* the selections of at most n records of the series catalogue
SeriesCollections(n) ==
  {SeriesSeqOfSet(S) : S \in {X \in SUBSET (1..Len(SeriesCatalogue)) :
                                X # {} /\ Cardinality(X) <= n}}

RECURSIVE PrefixSeqOfSet(_)
PrefixSeqOfSet(S) ==
  IF S = {} THEN <<>>
  ELSE LET k == SetMin(S)
       IN  <<PrefixCatalogue[k]>> \o PrefixSeqOfSet(S \ {k})

\* the selections of at most n records of the prefix catalogue
PrefixCollections(n) ==
  {PrefixSeqOfSet(S) : S \in {X \in SUBSET (1..Len(PrefixCatalogue)) :
                                X # {} /\ Cardinality(X) <= n}}

Thresholds == {<<1, 2>>, <<7, 10>>}

IndexerMethods == {"block", "fullindex"}

(***************************************************************************)
(* The text functions tabulated over the titles of the model, so that each *)
(* is computed once per title and not once per call                        *)
(***************************************************************************)
\* title -> ComicTitleParser.parse(title)
ParseOf == [t \in AllTitles \cup FamilyTitles |-> parse(t)] @@ <<>>

\* title -> ComicMatcher._clean_title_for_hash(title)
HashKeyOf ==
  [t \in AllTitles \cup FamilyTitles |-> _clean_title_for_hash(t)] @@ <<>>

\* <<title1, title2>> -> the score of _compare_titles on a cache miss
LiveScoreTable(pairs) == [p \in pairs |-> LiveTitleScore(p[1], p[2])] @@ <<>>

LiveScoreOf == LiveScoreTable(TitlePairs)

(***************************************************************************)
(* The state of a ComicMatcher                                             *)
(***************************************************************************)
VARIABLES
  fuzzy_hash,       \* self.fuzzy_hash: cache key -> score
  fuzzy_hash_type,  \* type(self.fuzzy_hash): "dict", or "list" after loading
                    \* a JSON array (a list is held as position -> item)
  store,            \* the fuzzy hash file: what is at the path, and whether
                    \* the path can be opened for writing
  ret               \* the last call: its name, arguments and return value

vars == <<fuzzy_hash, fuzzy_hash_type, store, ret>>

\* _compare_titles looking up the cache under the key of one ordering only
_compare_titles_one_key(title1, title2) ==
  LET key1 == HashKey(HashKeyOf[title1], HashKeyOf[title2])
  IN  IF DOMAIN fuzzy_hash # {} /\ key1 \in DOMAIN fuzzy_hash
      THEN fuzzy_hash[key1]
      ELSE LiveScoreOf[<<title1, title2>>]

\* _compare_titles with the exact-match short circuit ahead of the cache
_compare_titles_exact_first(title1, title2) ==
  LET key1 == HashKey(HashKeyOf[title1], HashKeyOf[title2])
      key2 == HashKey(HashKeyOf[title2], HashKeyOf[title1])
  IN  IF ParseOf[title1].clean_title = ParseOf[title2].clean_title THEN One
      ELSE IF key1 \in DOMAIN fuzzy_hash THEN fuzzy_hash[key1]
      ELSE IF key2 \in DOMAIN fuzzy_hash THEN fuzzy_hash[key2]
      ELSE LiveScoreOf[<<title1, title2>>]

\* ComicMatcher._compare_titles
_compare_titles(title1, title2) ==
  LET hash_key1 == HashKeyOf[title1]
      hash_key2 == HashKeyOf[title2]
      key1      == HashKey(hash_key1, hash_key2)
      key2      == HashKey(hash_key2, hash_key1)
  IN  IF DOMAIN fuzzy_hash # {} /\ key1 \in DOMAIN fuzzy_hash
      THEN fuzzy_hash[key1]
      ELSE IF DOMAIN fuzzy_hash # {} /\ key2 \in DOMAIN fuzzy_hash
      THEN fuzzy_hash[key2]
      ELSE LiveScoreOf[<<title1, title2>>]

(***************************************************************************)
(* matcher.py: ComicMatcher.match and find_best_match                      *)
(***************************************************************************)
\* one row of _prepare_dataframe
PrepareRow(comic, source_name) ==
  LET parsed == ParseOf[comic.title]
  IN  [title             |-> comic.title,
       issue             |-> comic.issue,
       source            |-> source_name,
       parsed_main_title |-> parsed.main_title,
       parsed_volume     |-> parsed.volume,
       parsed_year       |-> parsed.year,
       parsed_subtitle   |-> parsed.subtitle,
       parsed_special    |-> parsed.special,
       parsed_clean_title |-> parsed.clean_title,
       normalized_issue  |-> extract_issue_number(Str(comic.issue))]

\* ComicMatcher._prepare_dataframe; row i of the frame has index i
_prepare_dataframe(comics, source_name) ==
  [i \in 1..Len(comics) |-> PrepareRow(comics[i], source_name)]

\* the columns of a prepared frame
Columns(df) == DOMAIN df[1]

\* indexer.full()
FullPairs(df_source, df_target) == (1..Len(df_source)) \X (1..Len(df_target))

\* x['parsed_main_title'].str[0:1]
FirstChar(s) == SubSeq(s, 1, Min2(1, Len(s)))

\* indexer.block(lambda x: x['parsed_main_title'].str[0:1])
TitleBlockPairs(df_source, df_target) ==
  {p \in FullPairs(df_source, df_target) :
     FirstChar(df_source[p[1]].parsed_main_title)
       = FirstChar(df_target[p[2]].parsed_main_title)}

\* indexer.block('normalized_issue'): rows without a value are dropped
IssueBlockPairs(df_source, df_target) ==
  {p \in FullPairs(df_source, df_target) :
     /\ df_source[p[1]].normalized_issue # NoneVal
     /\ df_target[p[2]].normalized_issue # NoneVal
     /\ df_source[p[1]].normalized_issue = df_target[p[2]].normalized_issue}

\* the characters of the model in code-point order
CodeOrder ==
  <<" ", "#", "'", "(", ")", "-", ".">> \o
  <<"0", "1", "2", "3", "4", "5", "6", "7", "8", "9", ":">> \o
  UpperSeq \o <<"_">> \o LowerSeq \o <<"|">>

\* ord(c)
Ord(c) == CHOOSE i \in 1..Len(CodeOrder) : CodeOrder[i] = c

\* a < b for two str (the order the sorting keys are sorted in)
StrLess(a, b) ==
  \E n \in 0..Min2(Len(a), Len(b)) :
    /\ \A k \in 1..n : a[k] = b[k]
    /\ \/ (n = Len(a) /\ n < Len(b))
       \/ (n < Len(a) /\ n < Len(b) /\ Ord(a[n + 1]) < Ord(b[n + 1]))

\* the sorting key values of the two frames: the unique non-null values
SortingKeyValues(df_source, df_target, col) ==
  ({df_source[i][col] : i \in 1..Len(df_source)}
     \cup {df_target[j][col] : j \in 1..Len(df_target)}) \ {NoneVal}

\* the factor of a sorting key: its position among the sorted key values
SortingKeyFactor(key, values) == Cardinality({v \in values : StrLess(v, key)})

\* indexer.sortedneighbourhood(col, window): rows without a value are
\* dropped; a pair is kept when the factors of its keys differ by at most
\* (window - 1) / 2
SortedNeighbourhoodPairs(df_source, df_target, col, window) ==
  Let(SortingKeyValues(df_source, df_target, col), LAMBDA values :
    {p \in FullPairs(df_source, df_target) :
       /\ df_source[p[1]][col] # NoneVal
       /\ df_target[p[2]][col] # NoneVal
       /\ Abs(SortingKeyFactor(df_source[p[1]][col], values)
               - SortingKeyFactor(df_target[p[2]][col], values))
            <= (window - 1) \div 2})

\* the order of a pandas MultiIndex of (source, target) pairs
PairLess(p, q) == p[1] < q[1] \/ (p[1] = q[1] /\ p[2] < q[2])

\* the pairs of a set as a sorted index
RECURSIVE SortPairs(_)
SortPairs(S) ==
  IF S = {} THEN <<>>
  ELSE Let(CHOOSE p \in S : \A q \in S \ {p} : PairLess(p, q), LAMBDA first :
         <<first>> \o SortPairs(S \ {first}))

\* the pairs an index holds
PairsOf(index) == {index[k] : k \in 1..Len(index)}

\* pairs.append(pairs_i): every pair of both indexes, kept as often as it
\* occurs
IndexAppend(pairs, pairs_i) == pairs \o pairs_i

\* pairs.union(pairs_i): every pair of either index, once
IndexUnion(pairs, pairs_i) == SortPairs(PairsOf(pairs) \cup PairsOf(pairs_i))

\* the pairs of each algorithm configured on the indexer, in the order of
\* configuration (lines 292-307)
IndexAlgorithms(df_source, df_target, indexer_method) ==
  IF indexer_method = "fullindex"
  THEN <<SortPairs(FullPairs(df_source, df_target))>>
  ELSE IF indexer_method = "sortedneighbourhood"
  THEN <<SortPairs(SortedNeighbourhoodPairs(df_source, df_target,
                                            "parsed_main_title", 3))>>
       \o (IF "normalized_issue" \in Columns(df_source)
               /\ "normalized_issue" \in Columns(df_target)
            THEN <<SortPairs(SortedNeighbourhoodPairs(df_source, df_target,
                                                      "normalized_issue", 1))>>
            ELSE <<>>)
  ELSE <<SortPairs(TitleBlockPairs(df_source, df_target))>>
       \o (IF "normalized_issue" \in Columns(df_source)
               /\ "normalized_issue" \in Columns(df_target)
            THEN <<SortPairs(IssueBlockPairs(df_source, df_target))>>
            ELSE <<>>)

\* Index.index: the pairs of the first algorithm, united with the pairs of
\* each further one
RECURSIVE IndexOver(_, _)
IndexOver(algorithms, n) ==
  IF n = 1 THEN algorithms[1]
  ELSE IndexUnion(IndexOver(algorithms, n - 1), algorithms[n])

\* candidate_pairs = indexer.index(df_source, df_target) (line 310), as the
\* index it is
candidate_index(df_source, df_target, indexer_method) ==
  Let(IndexAlgorithms(df_source, df_target, indexer_method), LAMBDA algorithms :
    IndexOver(algorithms, Len(algorithms)))

\* indexer.index(df_source, df_target) with only the first predicate of the
\* default branch configured
candidate_pairs_first_only(df_source, df_target, indexer_method) ==
  IF indexer_method = "fullindex" THEN FullPairs(df_source, df_target)
  ELSE IF indexer_method = "sortedneighbourhood"
  THEN SortedNeighbourhoodPairs(df_source, df_target, "parsed_main_title", 3)
  ELSE TitleBlockPairs(df_source, df_target)

\* indexer.index(df_source, df_target) (lines 289-310)
candidate_pairs(df_source, df_target, indexer_method) ==
  IF indexer_method = "fullindex" THEN FullPairs(df_source, df_target)
  ELSE IF indexer_method = "sortedneighbourhood"
  THEN SortedNeighbourhoodPairs(df_source, df_target, "parsed_main_title", 3)
       \cup (IF "normalized_issue" \in Columns(df_source)
                /\ "normalized_issue" \in Columns(df_target)
             THEN SortedNeighbourhoodPairs(df_source, df_target,
                                           "normalized_issue", 1)
             ELSE {})
  ELSE TitleBlockPairs(df_source, df_target)
       \cup (IF "normalized_issue" \in Columns(df_source)
                /\ "normalized_issue" \in Columns(df_target)
             THEN IssueBlockPairs(df_source, df_target) ELSE {})

\* compare.compute leaving year_sim out of the vector of a pair in which a
\* record has no parsed year
Features_year_if_present(df_source, df_target, p) ==
  Let(df_source[p[1]], LAMBDA a :
  Let(df_target[p[2]], LAMBDA b :
    IF a.parsed_year # <<>> /\ b.parsed_year # <<>>
    THEN [title_sim   |-> _compare_titles(a.title, b.title),
          issue_match |-> _compare_issues(a.issue, b.issue),
          year_sim    |-> _compare_years(a.parsed_year, b.parsed_year)]
    ELSE [title_sim   |-> _compare_titles(a.title, b.title),
          issue_match |-> _compare_issues(a.issue, b.issue)]))

\* compare.compute scoring the titles afresh, without consulting the
\* comparator's overrides
Features_live_titles(df_source, df_target, p) ==
  Let(df_source[p[1]], LAMBDA a :
  Let(df_target[p[2]], LAMBDA b :
    [title_sim   |-> LiveScoreOf[<<a.title, b.title>>],
     issue_match |-> _compare_issues(a.issue, b.issue),
     year_sim    |-> _compare_years(a.parsed_year, b.parsed_year)]))

\* compare.compute for one pair (lines 313-325): column -> score
Features(df_source, df_target, p) ==
  Let(df_source[p[1]], LAMBDA a :
  Let(df_target[p[2]], LAMBDA b :
    IF "parsed_year" \in Columns(df_source) /\ "parsed_year" \in Columns(df_target)
    THEN [title_sim   |-> _compare_titles(a.title, b.title),
          issue_match |-> _compare_issues(a.issue, b.issue),
          year_sim    |-> _compare_years(a.parsed_year, b.parsed_year)]
    ELSE [title_sim   |-> _compare_titles(a.title, b.title),
          issue_match |-> _compare_issues(a.issue, b.issue)]))

\* the weight table with the year weighted like the title and the issue
weights_year_half ==
  [title_sim |-> <<1, 2>>, issue_match |-> <<1, 2>>, year_sim |-> <<1, 2>>]

weights == [title_sim |-> <<1, 2>>, issue_match |-> <<1, 2>>, year_sim |-> <<1, 5>>]

FeatureOrder == <<"title_sim", "issue_match", "year_sim">>

\* sum(f[col] for the columns cols among FeatureOrder[k..])
RECURSIVE SumOver(_, _, _)
SumOver(f, cols, k) ==
  IF k > Len(FeatureOrder) THEN Zero
  ELSE IF FeatureOrder[k] \in cols
  THEN RAdd(f[FeatureOrder[k]], SumOver(f, cols, k + 1))
  ELSE SumOver(f, cols, k + 1)

\* the weighted sum of one feature vector, not divided by the total weight
Score_unnormalised(features) ==
  Let(DOMAIN features \cap DOMAIN weights, LAMBDA used :
  Let([col \in used |-> RMul(features[col], weights[col])], LAMBDA weighted :
    SumOver(weighted, used, 1)))

\* the weighted similarity score of one feature vector (lines 327-342)
Score(features) ==
  Let(DOMAIN features \cap DOMAIN weights, LAMBDA used :
  Let(SumOver(weights, used, 1), LAMBDA total_weight :
  Let([col \in used |-> RMul(features[col], weights[col])], LAMBDA weighted :
    IF RGt(total_weight, Zero)
    THEN RDiv(SumOver(weighted, used, 1), total_weight)
    ELSE RDiv(SumOver(features, DOMAIN features, 1),
              <<Cardinality(DOMAIN features), 1>>))))

\* the filter with a strict comparison
Accepted_strict(score, threshold) == RGt(score, threshold)

\* scores[scores >= threshold] (line 345)
Accepted(score, threshold) == RGeq(score, threshold)

\* one row of the frame match returns
MatchRow(df_source, df_target, p) ==
  Let(Features(df_source, df_target, p), LAMBDA f :
    [source_idx |-> p[1], target_idx |-> p[2],
     similarity |-> Score(f), features |-> f])

\* ComicMatcher.match: the rows of the returned frame
match(source_comics, target_comics, threshold, indexer_method) ==
  Let(_prepare_dataframe(source_comics, "source"), LAMBDA df_source :
  Let(_prepare_dataframe(target_comics, "target"), LAMBDA df_target :
  Let(candidate_pairs(df_source, df_target, indexer_method), LAMBDA pairs :
  Let({MatchRow(df_source, df_target, p) : p \in pairs}, LAMBDA rows :
    {r \in rows : Accepted(r.similarity, threshold)}))))

\* row r comes before row q in the returned frame
Earlier(r, q) ==
  \/ r.source_idx < q.source_idx
  \/ (r.source_idx = q.source_idx /\ r.target_idx < q.target_idx)

\* matches['similarity'].idxmax(): the first row with the largest similarity
BestRow(matches) ==
  CHOOSE r \in matches :
    \A q \in matches :
      \/ r = q
      \/ RGt(r.similarity, q.similarity)
      \/ (r.similarity = q.similarity /\ Earlier(r, q))

\* find_best_match calling match with its default threshold of 0.7
find_best_match_default_threshold(comic, candidates) ==
  Let(match(<<comic>>, candidates, <<7, 10>>, "block"), LAMBDA matches :
    IF matches # {}
    THEN Let(BestRow(matches), LAMBDA best :
           << [source_comic  |-> comic,
               matched_comic |-> candidates[best.target_idx],
               target_idx    |-> best.target_idx,
               similarity    |-> best.similarity,
               scores        |-> best.features] >>)
    ELSE <<>>)

\* ComicMatcher.find_best_match: <<>> is None, <<result>> a result
find_best_match(comic, candidates) ==
  Let(match(<<comic>>, candidates, <<1, 2>>, "block"), LAMBDA matches :
    IF matches # {}
    THEN Let(BestRow(matches), LAMBDA best :
           << [source_comic  |-> comic,
               matched_comic |-> candidates[best.target_idx],
               target_idx    |-> best.target_idx,
               similarity    |-> best.similarity,
               scores        |-> best.features] >>)
    ELSE <<>>)

(***************************************************************************)
(* The calls.  A call is made when the matcher is idle; ret then holds the *)
(* call and its result until the caller takes it (Return).                 *)
(***************************************************************************)
\* the caches a fuzzy hash file is loaded from at construction
LoadedCaches ==
  {<<>>,
   HashKey(<<"x", "m", "e", "n">>, <<"x", "f", "o", "r", "c", "e">>) :> <<9, 10>>}

DigitChars == <<"0", "1", "2", "3", "4", "5", "6", "7", "8", "9">>

\* a JSON array as self.fuzzy_hash holds it: position -> item
JsonArray(items) ==
  [k \in {<<"[", DigitChars[i], "]">> : i \in 1..Len(items)} |->
     items[CHOOSE i \in 1..Len(items) : k = <<"[", DigitChars[i], "]">>]]

\* what can be at fuzzy_hash_path: no file, a file that cannot be opened, a
\* file that is not JSON, a JSON array, a JSON object
FileContents ==
  {[kind |-> "missing", data |-> <<>>],
   [kind |-> "unreadable", data |-> <<>>],
   [kind |-> "invalid", data |-> <<>>],
   [kind |-> "list", data |-> JsonArray(<< <<9, 10>> >>)],
   [kind |-> "list", data |-> JsonArray(<<>>)]}
  \cup {[kind |-> "dict", data |-> entries] : entries \in LoadedCaches}

\* every fuzzy hash file, at a path that can or cannot be written
FuzzyHashFiles ==
  {[kind |-> c.kind, data |-> c.data, writable |-> w] :
     c \in FileContents, w \in BOOLEAN}

\* self.fuzzy_hash after __init__: {} unless the file exists and json.load
\* returns a value (lines 45-52)
LoadFuzzyHash(file) ==
  IF file.kind \in {"dict", "list"} THEN file.data ELSE <<>>

\* type(self.fuzzy_hash) after __init__
LoadedType(file) == IF file.kind = "list" THEN "list" ELSE "dict"

Idle == [op |-> "idle"]

\* ComicMatcher.__init__ (lines 44-52) without a fuzzy hash file
Init ==
  /\ store = [kind |-> "missing", data |-> <<>>, writable |-> TRUE]
  /\ fuzzy_hash = LoadFuzzyHash(store)
  /\ fuzzy_hash_type = LoadedType(store)
  /\ ret = Idle

\* ComicMatcher.__init__ (lines 44-52), from any file
CacheInit ==
  /\ store \in FuzzyHashFiles
  /\ fuzzy_hash = LoadFuzzyHash(store)
  /\ fuzzy_hash_type = LoadedType(store)
  /\ ret = [op |-> "__init__", raised |-> "None"]

\* ComicMatcher.update_fuzzy_hash
update_fuzzy_hash(title1, title2, similarity) ==
  LET hash_key1 == HashKeyOf[title1]
      hash_key2 == HashKeyOf[title2]
      key       == HashKey(hash_key1, hash_key2)
  IN  /\ ret.op = "idle"
      /\ key \in DOMAIN fuzzy_hash \/ Cardinality(DOMAIN fuzzy_hash) < MaxEntries
      /\ fuzzy_hash' = IF hash_key1 # <<>> /\ hash_key2 # <<>>
                          /\ fuzzy_hash_type = "dict"
                       THEN (key :> similarity) @@ fuzzy_hash
                       ELSE fuzzy_hash
      /\ ret' = IF hash_key1 # <<>> /\ hash_key2 # <<>>
                   /\ fuzzy_hash_type = "list"
                THEN [op |-> "update_fuzzy_hash", title1 |-> title1,
                      title2 |-> title2, similarity |-> similarity,
                      raised |-> "TypeError"]
                ELSE [op |-> "update_fuzzy_hash", title1 |-> title1,
                      title2 |-> title2, similarity |-> similarity]
      /\ UNCHANGED <<fuzzy_hash_type, store>>

\* ComicMatcher.save_fuzzy_hash (lines 420-429): open(path, 'w') raises when
\* the path cannot be written, and nothing catches it
save_fuzzy_hash ==
  /\ ret.op = "idle"
  /\ store' = IF store.writable
              THEN [kind |-> fuzzy_hash_type, data |-> fuzzy_hash,
                    writable |-> TRUE]
              ELSE store
  /\ ret' = [op |-> "save_fuzzy_hash",
             raised |-> IF store.writable THEN "None" ELSE "OSError"]
  /\ UNCHANGED <<fuzzy_hash, fuzzy_hash_type>>

\* _compare_titles keeping the score it computed in the cache
CompareTitles_memo(title1, title2) ==
  /\ ret.op = "idle"
  /\ ret' = [op |-> "_compare_titles", title1 |-> title1, title2 |-> title2,
             value |-> _compare_titles(title1, title2)]
  /\ fuzzy_hash' =
       IF HashKeyOf[title1] # <<>> /\ HashKeyOf[title2] # <<>>
       THEN (HashKey(HashKeyOf[title1], HashKeyOf[title2]) :> ret'.value)
              @@ fuzzy_hash
       ELSE fuzzy_hash
  /\ UNCHANGED <<fuzzy_hash_type, store>>

\* ComicTitleParser.parse
Parse(title) ==
  /\ ret.op = "idle"
  /\ ret' = [op |-> "parse", title |-> title, value |-> ParseOf[title]]
  /\ UNCHANGED <<fuzzy_hash, fuzzy_hash_type, store>>

CompareTitles(title1, title2) ==
  /\ ret.op = "idle"
  /\ ret' = [op |-> "_compare_titles", title1 |-> title1, title2 |-> title2,
             value |-> _compare_titles(title1, title2)]
  /\ UNCHANGED <<fuzzy_hash, fuzzy_hash_type, store>>

\* ComicTitleParser.extract_issue_number
ExtractIssueNumber(text) ==
  /\ ret.op = "idle"
  /\ ret' = [op |-> "extract_issue_number", text |-> text,
             value |-> extract_issue_number(text)]
  /\ UNCHANGED <<fuzzy_hash, fuzzy_hash_type, store>>

CompareIssues(issue1, issue2) ==
  /\ ret.op = "idle"
  /\ ret' = [op |-> "_compare_issues", issue1 |-> issue1, issue2 |-> issue2,
             value |-> _compare_issues(issue1, issue2)]
  /\ UNCHANGED <<fuzzy_hash, fuzzy_hash_type, store>>

CompareYears(year1, year2) ==
  /\ ret.op = "idle"
  /\ ret' = [op |-> "_compare_years", year1 |-> year1, year2 |-> year2,
             value |-> _compare_years(year1, year2)]
  /\ UNCHANGED <<fuzzy_hash, fuzzy_hash_type, store>>

\* match recording the score of every accepted pair in the cache
Match_learning(source_comics, target_comics, threshold, indexer_method) ==
  /\ ret.op = "idle"
  /\ ret' = [op |-> "match", source_comics |-> source_comics,
             target_comics |-> target_comics, threshold |-> threshold,
             indexer_method |-> indexer_method,
             value |-> match(source_comics, target_comics, threshold,
                             indexer_method)]
  /\ fuzzy_hash' =
       [k \in {HashKey(HashKeyOf[source_comics[r.source_idx].title],
                       HashKeyOf[target_comics[r.target_idx].title]) :
                 r \in ret'.value} |->
          (CHOOSE r \in ret'.value :
             k = HashKey(HashKeyOf[source_comics[r.source_idx].title],
                         HashKeyOf[target_comics[r.target_idx].title])).similarity]
       @@ fuzzy_hash
  /\ UNCHANGED <<fuzzy_hash_type, store>>

Match(source_comics, target_comics, threshold, indexer_method) ==
  /\ ret.op = "idle"
  /\ ret' = [op |-> "match", source_comics |-> source_comics,
             target_comics |-> target_comics, threshold |-> threshold,
             indexer_method |-> indexer_method,
             value |-> match(source_comics, target_comics, threshold,
                             indexer_method)]
  /\ UNCHANGED <<fuzzy_hash, fuzzy_hash_type, store>>

FindBestMatch(comic, candidates) ==
  /\ ret.op = "idle"
  /\ ret' = [op |-> "find_best_match", comic |-> comic,
             candidates |-> candidates,
             value |-> find_best_match(comic, candidates)]
  /\ UNCHANGED <<fuzzy_hash, fuzzy_hash_type, store>>

\* the caller takes the returned value
Return ==
  /\ ret.op # "idle"
  /\ ret' = Idle
  /\ UNCHANGED <<fuzzy_hash, fuzzy_hash_type, store>>

Next ==
  \/ \E t1 \in UpdateTitles, t2 \in UpdateTitles, s \in SimValues :
       update_fuzzy_hash(t1, t2, s)
  \/ \E t1 \in Titles, t2 \in Titles : CompareTitles(t1, t2)
  \/ \E i1 \in IssueInputs, i2 \in IssueInputs : CompareIssues(i1, i2)
  \/ \E y1 \in YearInputs, y2 \in YearInputs : CompareYears(y1, y2)
  \/ \E s \in Collections(MaxSource), t \in Collections(MaxTarget),
        th \in Thresholds, ix \in IndexerMethods : Match(s, t, th, ix)
  \/ \E c \in Collections(1), t \in Collections(MaxTarget) :
       FindBestMatch(c[1], t)
  \/ Return

Spec == Init /\ [][Next]_vars

(***************************************************************************)
(* The life of the cache: loaded from any file at construction, updated,   *)
(* saved, and read by the comparators and the matching calls               *)
(***************************************************************************)
CacheTitles == {T_XMen, T_XForce}

CacheNext ==
  \/ \E t1 \in CacheTitles, t2 \in CacheTitles :
       update_fuzzy_hash(t1, t2, <<9, 10>>)
  \/ save_fuzzy_hash
  \/ \E t1 \in CacheTitles, t2 \in CacheTitles : CompareTitles(t1, t2)
  \/ \E i \in {<<"1">>, <<"2">>} : CompareIssues(<<"1">>, i)
  \/ \E y \in {<<"1", "9", "9", "1">>, NoneVal} :
       CompareYears(<<"1", "9", "9", "1">>, y)
  \/ \E s \in Collections(1), t \in Collections(1) :
       Match(s, t, <<1, 2>>, "block")
  \/ \E c \in Collections(1), t \in Collections(1) : FindBestMatch(c[1], t)
  \/ Return

CacheSpec == CacheInit /\ [][CacheNext]_vars

(***************************************************************************)
(* The entries an update of the cache touches                              *)
(***************************************************************************)
FrameNext ==
  \/ \E t1 \in FrameTitles, t2 \in FrameTitles, s \in SimValues :
       update_fuzzy_hash(t1, t2, s)
  \/ Return

FrameSpec == CacheInit /\ [][FrameNext]_vars

(***************************************************************************)
(* Records with missing or malformed fields                                *)
(***************************************************************************)
FieldNext ==
  \/ \E t \in Titles \cup MalformedTitles : Parse(t)
  \/ \E i1 \in FieldIssues, i2 \in FieldIssues : CompareIssues(i1, i2)
  \/ \E y1 \in FieldYears, y2 \in FieldYears : CompareYears(y1, y2)
  \/ \E s \in FieldCollections(MaxSource), t \in FieldCollections(MaxTarget),
        ix \in IndexerMethods :
       Match(s, t, <<1, 2>>, ix)
  \/ \E c \in FieldCollections(1), t \in FieldCollections(MaxTarget) :
       FindBestMatch(c[1], t)
  \/ Return

FieldSpec == Init /\ [][FieldNext]_vars

(***************************************************************************)
(* Title scores forced by special cases, and match at the default          *)
(* threshold                                                               *)
(***************************************************************************)
OverrideNext ==
  \/ \E t2 \in {T_XMen, T_XForce}, s \in ForcedValues :
       update_fuzzy_hash(T_XMen, t2, s)
  \/ \E t1 \in {T_XMen91, T_XMen85}, t2 \in {T_XMen85, T_XForce} :
       CompareTitles(t1, t2)
  \/ \E s \in OverrideCollections(MaxSource),
        t \in OverrideCollections(MaxTarget), ix \in IndexerMethods :
       Match(s, t, <<7, 10>>, ix)
  \/ Return

OverrideSpec == Init /\ [][OverrideNext]_vars

(***************************************************************************)
(* update_fuzzy_hash called with any number as similarity                  *)
(***************************************************************************)
\* the numbers update_fuzzy_hash is called with: 0.9, 1.5 and -0.5
AnyValues == {<<9, 10>>, <<3, 2>>, <<-1, 2>>}

RangeNext ==
  \/ \E t1 \in CacheTitles, t2 \in CacheTitles, s \in AnyValues :
       update_fuzzy_hash(t1, t2, s)
  \/ \E t1 \in CacheTitles, t2 \in CacheTitles : CompareTitles(t1, t2)
  \/ Return

RangeSpec == Init /\ [][RangeNext]_vars

(***************************************************************************)
(* The year comparator on years that cast to an integer and years that     *)
(* only hold one in their text                                             *)
(***************************************************************************)
CastYears ==
  {<<"1", "8", "5", "0">>, <<"1", "2">>, <<"1", "9", "9", "1">>,
   <<"1", "9", "9", "3">>, <<"2", "0", "1", "0">>,
   IntVal(<<"1", "9", "9", "1">>)}

TextYears ==
  {<<"c", " ", "1", "9", "9", "1">>,
   <<"1", "9", "9", "1", " ", "r", "e", "p", "r", "i", "n", "t">>,
   <<"A", "n", "n", "u", "a", "l">>}

YearNext ==
  \/ \E y1 \in CastYears \cup TextYears \cup {<<>>, NoneVal},
        y2 \in CastYears \cup TextYears \cup {<<>>, NoneVal} :
       CompareYears(y1, y2)
  \/ Return

YearSpec == Init /\ [][YearNext]_vars

(***************************************************************************)
(* The title comparator on titles of the X- brands                         *)
(***************************************************************************)
BrandNext ==
  \/ \E s \in SimValues : update_fuzzy_hash(T_XMen, T_XForce, s)
  \/ \E t1 \in BrandTitles, t2 \in BrandTitles : CompareTitles(t1, t2)
  \/ Return

BrandSpec == Init /\ [][BrandNext]_vars

(***************************************************************************)
(* The issue number of an issue text                                       *)
(***************************************************************************)
IssueNext ==
  \/ \E text \in IssueTexts : ExtractIssueNumber(text)
  \/ Return

IssueSpec == Init /\ [][IssueNext]_vars

(***************************************************************************)
(* Records of different series with alike titles                           *)
(***************************************************************************)
SeriesNext ==
  \/ \E t1 \in SeriesTitles, t2 \in SeriesTitles : CompareTitles(t1, t2)
  \/ \E s \in SeriesCollections(MaxSource), t \in SeriesCollections(MaxTarget),
        th \in Thresholds, ix \in IndexerMethods :
       Match(s, t, th, ix)
  \/ Return

SeriesSpec == Init /\ [][SeriesNext]_vars

(***************************************************************************)
(* The command line: comic-matcher match SOURCE TARGET                     *)
(***************************************************************************)
\* the input files of the command line: their extension, and what reading
\* them gives ("missing": no such file; "bad": unreadable or malformed)
DataFiles ==
  {[ext |-> e, state |-> st, rows |-> <<>>] :
     e \in {".csv", ".json", ".txt"}, st \in {"missing", "bad"}}
  \cup {[ext |-> e, state |-> "ok", rows |-> rows] :
          e \in {".csv", ".json", ".txt"}, rows \in Collections(1) \cup {<<>>}}

\* utils.load_comics_from_csv: a DataFrame, empty after an error
load_comics_from_csv(file) ==
  [type |-> "DataFrame", rows |-> IF file.state = "ok" THEN file.rows ELSE <<>>,
   logged_error |-> file.state # "ok"]

\* utils.load_comics_from_json: a list, empty after an error
load_comics_from_json(file) ==
  [type |-> "list", rows |-> IF file.state = "ok" THEN file.rows ELSE <<>>,
   logged_error |-> file.state # "ok"]

\* cli.load_data
load_data(file) ==
  IF file.state = "missing"
  THEN [type |-> "list", rows |-> <<>>, logged_error |-> TRUE]
  ELSE IF file.ext = ".csv" THEN load_comics_from_csv(file)
  ELSE IF file.ext = ".json" THEN load_comics_from_json(file)
  ELSE [type |-> "list", rows |-> <<>>, logged_error |-> TRUE]

\* bool(data): len(data) > 0 for a list; a DataFrame raises ValueError
\* ("The truth value of a DataFrame is ambiguous")
Bool(data) ==
  IF data.type = "DataFrame" THEN "ValueError"
  ELSE IF Len(data.rows) > 0 THEN "True" ELSE "False"

\* `not source_data or not target_data` (cli.py:71): the right operand is
\* evaluated only when the left one is false
LoadFailed(source_data, target_data) ==
  IF Bool(source_data) # "True"
  THEN (IF Bool(source_data) = "False" THEN "True" ELSE "ValueError")
  ELSE (IF Bool(target_data) = "True" THEN "False"
        ELSE IF Bool(target_data) = "False" THEN "True" ELSE "ValueError")

\* cli.run_matcher (lines 60-106) with the default threshold and indexer;
\* the engine it constructs is the one of the state
run_matcher(source, target) ==
  /\ ret.op = "idle"
  /\ fuzzy_hash = LoadFuzzyHash(store) /\ fuzzy_hash_type = LoadedType(store)
  /\ ret' =
       Let(load_data(source), LAMBDA source_data :
       Let(load_data(target), LAMBDA target_data :
       Let(LoadFailed(source_data, target_data), LAMBDA failed :
         [op |-> "run_matcher", source |-> source, target |-> target,
          raised |-> IF failed = "ValueError" THEN "ValueError" ELSE "None",
          logged_error |-> \/ source_data.logged_error
                           \/ target_data.logged_error
                           \/ failed = "True",
          matches |-> IF failed = "False"
                      THEN match(source_data.rows, target_data.rows,
                                 <<7, 10>>, "block")
                      ELSE {}])))
  /\ UNCHANGED <<fuzzy_hash, fuzzy_hash_type, store>>

CliNext ==
  \/ \E source \in DataFiles, target \in DataFiles : run_matcher(source, target)
  \/ Return

CliSpec == Init /\ [][CliNext]_vars

(***************************************************************************)
(* The candidate index of match, under every indexer name the repository   *)
(* passes                                                                  *)
(***************************************************************************)
\* the indexer names of the command line (cli.py:137-139) and the one the
\* debug script passes (debug_marvel_issue.py:68)
IndexerNames == {"block", "sortedneighbourhood", "fullindex", "full"}

IndexNext ==
  \/ \E s \in Collections(MaxSource), t \in Collections(MaxTarget),
        ix \in IndexerNames :
       Match(s, t, <<1, 2>>, ix)
  \/ Return

IndexSpec == Init /\ [][IndexNext]_vars

(***************************************************************************)
(* Titles that differ by a leading prefix                                  *)
(***************************************************************************)
PrefixNext ==
  \/ \E t1 \in PrefixTitles, t2 \in PrefixTitles : CompareTitles(t1, t2)
  \/ \E s \in PrefixCollections(MaxSource), t \in PrefixCollections(MaxTarget),
        ix \in IndexerNames :
       Match(s, t, <<1, 2>>, ix)
  \/ Return

PrefixSpec == Init /\ [][PrefixNext]_vars

(***************************************************************************)
(* Block indexing against full indexing                                    *)
(***************************************************************************)
\* the default threshold, one between 0.7/1.2 and it, and one below 0.7/1.2
BlockThresholds == {<<1, 2>>, <<3, 5>>, <<7, 10>>}

BlockNext ==
  \/ \E pair \in {<<T_AllNewUncanny, T_Uncanny>>, <<T_Uncanny, T_AllNewUncanny>>},
        s \in SimValues :
       update_fuzzy_hash(pair[1], pair[2], s)
  \/ \E s \in PrefixCollections(MaxSource), t \in PrefixCollections(MaxTarget),
        th \in BlockThresholds, ix \in IndexerMethods :
       Match(s, t, th, ix)
  \/ Return

BlockSpec == Init /\ [][BlockNext]_vars

(***************************************************************************)
(* The similarity cache and the title comparator                           *)
(***************************************************************************)
\* the cache keys of the two orderings of a pair of titles
KeysOf(title1, title2) ==
  {HashKey(HashKeyOf[title1], HashKeyOf[title2]),
   HashKey(HashKeyOf[title2], HashKeyOf[title1])}

\* the last call was update_fuzzy_hash with two non-empty keys, and the
\* cache holds no entry under the reversed key of the pair
UpdatedAlone ==
  /\ ret.op = "update_fuzzy_hash"
  /\ HashKeyOf[ret.title1] # <<>>
  /\ HashKeyOf[ret.title2] # <<>>
  /\ \/ HashKeyOf[ret.title1] = HashKeyOf[ret.title2]
     \/ HashKey(HashKeyOf[ret.title2], HashKeyOf[ret.title1])
          \notin DOMAIN fuzzy_hash

\* C1: after update_fuzzy_hash(A, B, s) with both hash keys non-empty and no
\* entry under the reversed key, the title comparator returns s for (A, B),
\* for (B, A) and for all titles A', B' with the hash keys of A and B.
C1_LookupOrderInsensitive ==
  UpdatedAlone =>
    \A a \in Titles, b \in Titles :
      (HashKeyOf[a] = HashKeyOf[ret.title1] /\ HashKeyOf[b] = HashKeyOf[ret.title2])
        => /\ _compare_titles(a, b) = ret.similarity
           /\ _compare_titles(b, a) = ret.similarity

\* an update of a pair of distinct keys, stored alone, that other titles
\* share the keys of and whose score is not the live score
C1_Witness ==
  /\ UpdatedAlone
  /\ HashKeyOf[ret.title1] # HashKeyOf[ret.title2]
  /\ \E a \in Titles : a # ret.title1 /\ HashKeyOf[a] = HashKeyOf[ret.title1]
  /\ LiveScoreOf[<<ret.title2, ret.title1>>] # ret.similarity

\* C2: whenever the cache holds an entry for the pair's keys in either
\* ordering, _compare_titles returns a cached value of the pair, whatever
\* the exact-match, brand-veto, prefix and string-metric steps would give.
C2_CacheOverrides ==
  (ret.op = "_compare_titles"
     /\ KeysOf(ret.title1, ret.title2) \cap DOMAIN fuzzy_hash # {})
    => ret.value \in {fuzzy_hash[k] :
                        k \in KeysOf(ret.title1, ret.title2) \cap DOMAIN fuzzy_hash}

\* a cache hit for two titles whose clean titles are equal (live score 1.0)
\* that returned a cached score other than 1.0
C2_Witness ==
  /\ ret.op = "_compare_titles"
  /\ KeysOf(ret.title1, ret.title2) \cap DOMAIN fuzzy_hash # {}
  /\ ParseOf[ret.title1].clean_title = ParseOf[ret.title2].clean_title
  /\ ret.value # One

\* C3: the title comparator is symmetric in every reachable cache state:
\* _compare_titles(A, B) = _compare_titles(B, A) for all titles A and B.
C3_Symmetric ==
  \A a \in Titles, b \in Titles : _compare_titles(a, b) = _compare_titles(b, a)

(***************************************************************************)
(* The aggregate score and the threshold filter of match                   *)
(***************************************************************************)
\* every candidate pair of a match call with its feature vector and score
CandidateRows(source_comics, target_comics, indexer_method) ==
  Let(_prepare_dataframe(source_comics, "source"), LAMBDA df_source :
  Let(_prepare_dataframe(target_comics, "target"), LAMBDA df_target :
    {MatchRow(df_source, df_target, p) :
       p \in candidate_pairs(df_source, df_target, indexer_method)}))

\* the candidate rows of the last call, which was a match call
LastCandidates ==
  CandidateRows(ret.source_comics, ret.target_comics, ret.indexer_method)

\* C4: the threshold filter of match is exact: a candidate pair is in the
\* result if and only if its aggregate score is >= the threshold, so every
\* returned row has similarity >= threshold and no candidate pair at or
\* above the threshold is missing.
C4_ThresholdExact ==
  ret.op = "match" =>
    /\ ret.value \subseteq LastCandidates
    /\ \A r \in ret.value : RGeq(r.similarity, ret.threshold)
    /\ \A c \in LastCandidates :
         RGeq(c.similarity, ret.threshold) => c \in ret.value

\* a match call that returned a pair scoring exactly the threshold, next to
\* a candidate pair below the threshold that it left out
C4_Witness ==
  /\ ret.op = "match"
  /\ \E r \in ret.value : r.similarity = ret.threshold
  /\ \E c \in LastCandidates : ~RGeq(c.similarity, ret.threshold)

\* (0.5*t + 0.5*i + 0.2*y) / 1.2
ThreeFeatureAggregate(t, i, y) ==
  RDiv(RAdd(RAdd(RMul(<<1, 2>>, t), RMul(<<1, 2>>, i)), RMul(<<1, 5>>, y)),
       <<6, 5>>)

\* (0.5*t + 0.5*i) / 1.0
TwoFeatureAggregate(t, i) == RAdd(RMul(<<1, 2>>, t), RMul(<<1, 2>>, i))

\* scores the aggregate is tried on besides those of the match calls
ScoreGrid == {Zero, <<3, 5>>, One}

\* C5: for a feature vector with title_sim, issue_match and year_sim the
\* aggregate score is (0.5*title_sim + 0.5*issue_match + 0.2*year_sim) / 1.2,
\* for every row match returns and for every vector over ScoreGrid; the
\* vector (0.8, 1.0, 0.6) gives 0.85.
C5_WeightedAggregate ==
  /\ Score([title_sim |-> <<4, 5>>, issue_match |-> One, year_sim |-> <<3, 5>>])
       = <<17, 20>>
  /\ \A t \in ScoreGrid, i \in ScoreGrid, y \in ScoreGrid :
       Score([title_sim |-> t, issue_match |-> i, year_sim |-> y])
         = ThreeFeatureAggregate(t, i, y)
  /\ ret.op = "match" =>
       \A r \in ret.value :
         DOMAIN r.features = {"title_sim", "issue_match", "year_sim"} =>
           r.similarity = ThreeFeatureAggregate(r.features.title_sim,
                                                r.features.issue_match,
                                                r.features.year_sim)

\* a returned row whose three features are a cached title score 0.9, an
\* issue match and a neutral year score: (0.45 + 0.5 + 0.1) / 1.2 = 0.875
C5_Witness ==
  /\ ret.op = "match"
  /\ \E r \in ret.value :
       /\ r.features = [title_sim |-> <<9, 10>>, issue_match |-> One,
                        year_sim |-> <<1, 2>>]
       /\ r.similarity = <<7, 8>>

\* the row r of the last match call pairs records one of which has no
\* parsed year
MissingYear(r) ==
  \/ ParseOf[ret.source_comics[r.source_idx].title].year = <<>>
  \/ ParseOf[ret.target_comics[r.target_idx].title].year = <<>>

\* C6 as stated: year_sim is in a pair's feature vector only when both
\* records carry a parsed year; when either has none, the year weight is left
\* out of the divisor and the aggregate is (0.5*title_sim + 0.5*issue_match).
C6_YearLeftOut ==
  ret.op = "match" =>
    \A r \in ret.value :
      /\ "year_sim" \in DOMAIN r.features => ~MissingYear(r)
      /\ MissingYear(r) =>
           r.similarity = TwoFeatureAggregate(r.features.title_sim,
                                              r.features.issue_match)

\* C6 amended: year_sim is in the feature vector of every pair of a match
\* call; when either record has no parsed year it is 0.5 and the year weight
\* stays in the divisor, so the aggregate is
\* (0.5*title_sim + 0.5*issue_match + 0.1) / 1.2.  The divisor shrinks to 1.0
\* only for a vector without the year_sim column.
C6_YearAlwaysCompared ==
  /\ \A t \in ScoreGrid, i \in ScoreGrid :
       Score([title_sim |-> t, issue_match |-> i]) = TwoFeatureAggregate(t, i)
  /\ ret.op = "match" =>
       \A r \in ret.value :
         /\ DOMAIN r.features = {"title_sim", "issue_match", "year_sim"}
         /\ MissingYear(r) =>
              /\ r.features.year_sim = <<1, 2>>
              /\ r.similarity = ThreeFeatureAggregate(r.features.title_sim,
                                                      r.features.issue_match,
                                                      <<1, 2>>)

\* a returned pair with a record without a parsed year, whose aggregate is
\* not the aggregate of the title and issue scores alone
C6_Witness ==
  /\ ret.op = "match"
  /\ \E r \in ret.value :
       /\ MissingYear(r)
       /\ r.similarity # TwoFeatureAggregate(r.features.title_sim,
                                             r.features.issue_match)

(***************************************************************************)
(* The issue and year comparators                                          *)
(***************************************************************************)
\* the last call was _compare_issues(a, b)
IssuesCalled(a, b) ==
  ret.op = "_compare_issues" /\ ret.issue1 = a /\ ret.issue2 = b

\* C7: _compare_issues is binary: it returns 1.0 if and only if both inputs
\* normalize (extract_issue_number) to the same non-absent token and 0.0 in
\* every other case; "#142" vs "142" gives 1.0, "Annual" vs "Special" 0.0
\* and "" vs "5" 0.0.
C7_IssueBinary ==
  /\ ret.op = "_compare_issues" =>
       /\ ret.value \in {Zero, One}
       /\ ret.value = One <=>
            /\ extract_issue_number(Str(ret.issue1)) # NoneVal
            /\ extract_issue_number(Str(ret.issue1))
                 = extract_issue_number(Str(ret.issue2))
  /\ IssuesCalled(<<"#", "1", "4", "2">>, <<"1", "4", "2">>) => ret.value = One
  /\ IssuesCalled(<<"A", "n", "n", "u", "a", "l">>,
                  <<"S", "p", "e", "c", "i", "a", "l">>) => ret.value = Zero
  /\ IssuesCalled(<<>>, <<"5">>) => ret.value = Zero

\* the call `"#142" vs "142"`, two different texts, returned 1.0
C7_Witness ==
  /\ IssuesCalled(<<"#", "1", "4", "2">>, <<"1", "4", "2">>)
  /\ ret.value = One

\* the last call was _compare_years(a, b)
YearsCalled(a, b) ==
  ret.op = "_compare_years" /\ ret.year1 = a /\ ret.year2 = b

\* the score the ordered rules of the claim give the years y1 and y2
OrderedYearScore(y1, y2) ==
  IF y1 = y2 THEN One
  ELSE IF Abs(y1 - y2) <= 2 THEN <<4, 5>>
  ELSE IF \/ (y1 >= 2000 /\ 1960 <= y2 /\ y2 <= 1999)
          \/ (y2 >= 2000 /\ 1960 <= y1 /\ y1 <= 1999)
  THEN <<7, 10>>
  ELSE Zero

\* C8: on the two parsed years the year comparator applies, in this order:
\* missing on either side -> 0.5; equal -> 1.0; difference <= 2 -> 0.8; one
\* year >= 2000 and the other in 1960..1999 -> 0.7; otherwise 0.0.  So
\* (2010,2012) = 0.8, (2010,1985) = 0.7, (2010,1950) = 0.0, (2010,None) = 0.5
\* and (2001,1999) = 0.8.
C8_YearRuleOrder ==
  /\ ret.op = "_compare_years" =>
       ret.value =
         IF ExtractYears(ret.year1, ret.year2)[1] = {}
            \/ ExtractYears(ret.year1, ret.year2)[2] = {}
         THEN <<1, 2>>
         ELSE OrderedYearScore(
                CHOOSE y \in ExtractYears(ret.year1, ret.year2)[1] : TRUE,
                CHOOSE y \in ExtractYears(ret.year1, ret.year2)[2] : TRUE)
  /\ YearsCalled(<<"2", "0", "1", "0">>, <<"2", "0", "1", "2">>)
       => ret.value = <<4, 5>>
  /\ YearsCalled(<<"2", "0", "1", "0">>, <<"1", "9", "8", "5">>)
       => ret.value = <<7, 10>>
  /\ YearsCalled(<<"2", "0", "1", "0">>, <<"1", "9", "5", "0">>)
       => ret.value = Zero
  /\ YearsCalled(<<"2", "0", "1", "0">>, NoneVal) => ret.value = <<1, 2>>
  /\ YearsCalled(<<"2", "0", "0", "1">>, <<"1", "9", "9", "9">>)
       => ret.value = <<4, 5>>

\* the call (2001, 1999), which the within-two-years rule and the reprint
\* rule both cover, returned 0.8
C8_Witness ==
  /\ YearsCalled(<<"2", "0", "0", "1">>, <<"1", "9", "9", "9">>)
  /\ ret.value = <<4, 5>>

(***************************************************************************)
(* find_best_match and determinism                                         *)
(***************************************************************************)
\* the rows of the comic against every candidate that score >= 0.5
AllAtHalf(comic, candidates) == match(<<comic>>, candidates, <<1, 2>>, "fullindex")

\* C9: find_best_match returns the candidate with the highest aggregate
\* among all candidates scoring >= 0.5 against the comic, and none only when
\* no candidate reaches 0.5: candidate-pair generation passes over no
\* candidate scoring >= 0.5.
C9_BestOfAll ==
  ret.op = "find_best_match" =>
    IF AllAtHalf(ret.comic, ret.candidates) = {}
    THEN ret.value = <<>>
    ELSE /\ ret.value # <<>>
         /\ ret.value[1].target_idx
              = BestRow(AllAtHalf(ret.comic, ret.candidates)).target_idx
         /\ ret.value[1].similarity
              = BestRow(AllAtHalf(ret.comic, ret.candidates)).similarity

\* the call that ret holds, made again
Rerun ==
  IF ret.op = "match"
  THEN match(ret.source_comics, ret.target_comics, ret.threshold,
             ret.indexer_method)
  ELSE find_best_match(ret.comic, ret.candidates)

LastSource == _prepare_dataframe(ret.source_comics, "source")

\* the prepared target frame of the last call, which was a match call
LastTarget == _prepare_dataframe(ret.target_comics, "target")

\* the candidate pairs of the last call, which was a match call
LastPairs == candidate_pairs(LastSource, LastTarget, ret.indexer_method)

\* C11: when the full indexing strategy is selected for match (as
\* "fullindex" by the command line, as "full" by the debug script), the
\* candidate set is every (source, target) pair: |source| * |target| pairs,
\* whatever the titles and the issue numbers are.
C11_FullIsAllPairs ==
  (ret.op = "match" /\ ret.indexer_method \in {"full", "fullindex"}) =>
    /\ LastPairs = FullPairs(LastSource, LastTarget)
    /\ Cardinality(LastPairs) = Len(ret.source_comics) * Len(ret.target_comics)

\* the two records of a pair begin their main titles with the same character
SameFirstChar(p) ==
  SubSeq(LastSource[p[1]].parsed_main_title, 1, 1)
    = SubSeq(LastTarget[p[2]].parsed_main_title, 1, 1)

\* the two records of a pair have the same normalized issue, which is present
SameIssue(p) ==
  /\ LastSource[p[1]].normalized_issue # NoneVal
  /\ LastSource[p[1]].normalized_issue = LastTarget[p[2]].normalized_issue

\* C12: block indexing yields the union of its predicates: a (source,
\* target) pair is a block candidate if and only if the two main titles have
\* an equal first character or the two normalized issues are present and
\* equal; the block pair set is a subset of the full pair set and a superset
\* of the pair set of each predicate taken alone.
C12_BlockIsUnion ==
  (ret.op = "match" /\ ret.indexer_method = "block") =>
    /\ \A i \in 1..Len(ret.source_comics), j \in 1..Len(ret.target_comics) :
         <<i, j>> \in LastPairs <=> (SameFirstChar(<<i, j>>) \/ SameIssue(<<i, j>>))
    /\ LastPairs \subseteq candidate_pairs(LastSource, LastTarget, "fullindex")
    /\ TitleBlockPairs(LastSource, LastTarget) \subseteq LastPairs
    /\ IssueBlockPairs(LastSource, LastTarget) \subseteq LastPairs

\* a block index that holds a pair for its issue alone and leaves out another
C12_Witness ==
  /\ ret.op = "match" /\ ret.indexer_method = "block"
  /\ \E p \in LastPairs : SameIssue(p) /\ ~SameFirstChar(p)
  /\ \E p \in FullPairs(LastSource, LastTarget) : p \notin LastPairs

\* the candidate index of the last call, which was a match call
LastIndex == candidate_index(LastSource, LastTarget, ret.indexer_method)

C14_ExplicitCacheLifecycle ==
  [][/\ fuzzy_hash' # fuzzy_hash => ret'.op = "update_fuzzy_hash"
     /\ store' # store => ret'.op = "save_fuzzy_hash"
     /\ ret'.op = "save_fuzzy_hash" => fuzzy_hash' = fuzzy_hash
     /\ fuzzy_hash_type' = fuzzy_hash_type]_vars

\* a cache of two entries or more, so one that was updated, just saved
C14_Witness ==
  /\ ret.op = "save_fuzzy_hash"
  /\ store.kind = "dict" /\ store.data = fuzzy_hash
  /\ Cardinality(DOMAIN fuzzy_hash) >= 2

\* C15: loading the cache is best-effort: constructing the engine with a
\* cache path that does not exist, cannot be read or does not contain a
\* valid mapping never raises, and leaves the engine usable with an empty
\* cache: the cache is an empty mapping after construction and no later
\* update_fuzzy_hash raises.
C15_LoadBestEffort ==
  /\ (ret.op = "__init__" /\ store.kind # "dict") =>
       /\ ret.raised = "None"
       /\ fuzzy_hash = <<>>
       /\ fuzzy_hash_type = "dict"
  /\ ret.op = "update_fuzzy_hash" => "raised" \notin DOMAIN ret

\* C16: a failure while saving the cache is a no-op: save_fuzzy_hash does
\* not raise to its caller, and the cache in memory is the same as before
\* the call.
C16_SaveFailureIsNoOp ==
  [][ret'.op = "save_fuzzy_hash" =>
       /\ ret'.raised = "None"
       /\ fuzzy_hash' = fuzzy_hash
       /\ fuzzy_hash_type' = fuzzy_hash_type]_vars

(***************************************************************************)
(* The command line                                                        *)
(***************************************************************************)
\* loading the file gives no records: it is missing, has an unsupported
\* extension, or is unreadable or malformed
InputFails(file) == file.state # "ok" \/ file.ext \notin {".csv", ".json"}

\* C17: in the match command, a failure to load the source or the target
\* input (missing file, unsupported extension, unreadable or malformed CSV
\* or JSON) ends in a logged error and no matches, never in an uncaught
\* exception, on the JSON path and on the CSV path alike.
C17_LoadFailureNoCrash ==
  (ret.op = "run_matcher" /\ (InputFails(ret.source) \/ InputFails(ret.target))) =>
    /\ ret.raised = "None"
    /\ ret.logged_error
    /\ ret.matches = {}

(***************************************************************************)
(* Missing and malformed fields                                            *)
(***************************************************************************)
\* a title, issue or year field that is empty or not a str
EmptyOrNotStr(v) == v = <<>> \/ ~IsStr(v)

\* the field, written out as text, holds no digit
NoDigit(v) == \A i \in 1..Len(Str(v)) : ~IsDigit(Str(v)[i])

SameTitleAndIssue(comic, candidate) ==
  candidate.title = comic.title /\ candidate.issue = comic.issue

\* C19: with an empty cache, find_best_match returns a result, and one of
\* similarity 0.5 or more, whenever the candidate list contains a record
\* with the same title and the same issue as the queried comic.
C19_SameRecordFound ==
  (/\ ret.op = "find_best_match"
   /\ fuzzy_hash = <<>>
   /\ \E k \in 1..Len(ret.candidates) :
        SameTitleAndIssue(ret.comic, ret.candidates[k])) =>
    /\ ret.value # <<>>
    /\ RGeq(ret.value[1].similarity, <<1, 2>>)

\* the comic has no issue and is among the candidates: it is returned with
\* a similarity of exactly 0.5 (title 1.0, issue 0.0, year 0.5)
C19_Witness ==
  /\ ret.op = "find_best_match"
  /\ fuzzy_hash = <<>>
  /\ ret.comic.issue = NoneVal
  /\ ret.value # <<>>
  /\ SameTitleAndIssue(ret.comic, ret.value[1].matched_comic)
  /\ ret.value[1].similarity = <<1, 2>>

(***************************************************************************)
(* Forced title scores                                                     *)
(***************************************************************************)
\* the title score the comparator gives the records of candidate pair p
PairTitleSim(p) ==
  _compare_titles(ret.source_comics[p[1]].title, ret.target_comics[p[2]].title)

\* the issue score of the records of candidate pair p
PairIssueMatch(p) ==
  _compare_issues(ret.source_comics[p[1]].issue, ret.target_comics[p[2]].issue)

\* C20: in match at threshold 0.7, every candidate pair to which the title
\* comparator gives a forced score of 0.9 or 1.0, and whose issue numbers
\* are equal, is in the result, whatever its year score.
C20_ForcedTitleAccepted ==
  (ret.op = "match" /\ ret.threshold = <<7, 10>>) =>
    \A p \in LastPairs :
      (PairTitleSim(p) \in ForcedValues /\ PairIssueMatch(p) = One) =>
        \E r \in ret.value : r.source_idx = p[1] /\ r.target_idx = p[2]

\* a returned row of two records whose live title score is below 0.9 and
\* was forced to 0.9, and a returned row whose year score is 0.0
C20_Witness ==
  /\ ret.op = "match" /\ ret.threshold = <<7, 10>>
  /\ \E r \in ret.value :
       /\ r.features.title_sim = <<9, 10>>
       /\ ~RGeq(LiveScoreOf[<<ret.source_comics[r.source_idx].title,
                              ret.target_comics[r.target_idx].title>>],
                <<9, 10>>)
       /\ r.features.issue_match = One
  /\ \E r \in ret.value :
       /\ r.features.title_sim \in ForcedValues
       /\ r.features.year_sim = Zero

(***************************************************************************)
(* Different series                                                        *)
(***************************************************************************)
\* C21: in match at threshold 0.7, source "Marvel Universe Vs Wolverine" is
\* never paired with target "Marvel Versus DC", although both carry the
\* same issue number.
C21_DifferentSeriesRejected ==
  (ret.op = "match" /\ ret.threshold = <<7, 10>>) =>
    \A r \in ret.value :
      ~(/\ ret.source_comics[r.source_idx].title = T_MarvelUniverse
        /\ ret.target_comics[r.target_idx].title = T_MarvelVersus)

(***************************************************************************)
(* The keys update_fuzzy_hash writes                                       *)
(***************************************************************************)
\* the hash keys of the titles update_fuzzy_hash is called with
UpdateKeys == {HashKeyOf[t] : t \in UpdateTitles}

\* the cache holds both orderings of a pair of distinct keys
BothOrderings(cache) ==
  \E a \in UpdateKeys, b \in UpdateKeys :
    /\ a # b
    /\ HashKey(a, b) \in DOMAIN cache
    /\ HashKey(b, a) \in DOMAIN cache

\* C22: update_fuzzy_hash(A, B, s) writes exactly one key, keyA|keyB, and in
\* every cache state reachable from an empty cache by update calls the two
\* orderings a|b and b|a of a pair of distinct keys are never both present.
C22_OneOrderingStored ==
  [][ret'.op = "update_fuzzy_hash" =>
       /\ DOMAIN fuzzy_hash' \ DOMAIN fuzzy_hash
            \subseteq {HashKey(HashKeyOf[ret'.title1], HashKeyOf[ret'.title2])}
       /\ ~BothOrderings(fuzzy_hash')]_vars

(***************************************************************************)
(* The range of the cached scores                                          *)
(***************************************************************************)
\* 0 <= v <= 1
InUnitInterval(v) == RGeq(v, Zero) /\ RGeq(One, v)

\* C23: in every reachable state every value stored in the cache is a
\* number in [0,1], and the result of the title comparator is in [0,1].
C23_ValuesInUnitInterval ==
  /\ \A k \in DOMAIN fuzzy_hash : InUnitInterval(fuzzy_hash[k])
  /\ ret.op = "_compare_titles" => InUnitInterval(ret.value)

(***************************************************************************)
(* The two sides of the year comparator                                    *)
(***************************************************************************)
\* one side parsed on its own: the direct cast, and the 4-digit pattern
\* only when the cast fails
YearOfSide(year) ==
  IF ~Truthy(year) THEN {}
  ELSE IF IntOf(Str(year)) # {} THEN IntOf(Str(year))
  ELSE YearByPattern(year)

\* C24: the year comparator parses each side independently: a side whose
\* value casts directly to an integer uses that integer, and the 4-digit
\* pattern is applied only to a side whose direct cast fails, whether or
\* not the other side needed it.
C24_SidesIndependent ==
  ret.op = "_compare_years" =>
    ret.value = YearRules(YearOfSide(ret.year1), YearOfSide(ret.year2))

(***************************************************************************)
(* The brand veto                                                          *)
(***************************************************************************)
\* neither ordering of the pair is a key of the cache
CacheMiss(title1, title2) == KeysOf(title1, title2) \cap DOMAIN fuzzy_hash = {}

\* the positions of s at which a token x-<word> starts
BrandStarts(s) ==
  {i \in 1..Len(s) :
     /\ i + 2 <= Len(s)
     /\ s[i] = "x" /\ s[i + 1] = "-" /\ s[i + 2] \in LowerLetters}

\* the first token x-<word> of s: from its x to the last letter of the word
FirstBrand(s) ==
  LET i == FirstOf(BrandStarts(s))
  IN  SubSeq(s, i,
             CHOOSE e \in (i + 2)..Len(s) :
               /\ \A k \in (i + 2)..e : s[k] \in LowerLetters
               /\ (e = Len(s) \/ s[e + 1] \notin LowerLetters))

\* both clean titles hold a token x-<word>, and the first ones differ
BrandsDiffer(title1, title2) ==
  LET clean1 == ParseOf[title1].clean_title
      clean2 == ParseOf[title2].clean_title
  IN  /\ clean1 # clean2
      /\ BrandStarts(clean1) # {} /\ BrandStarts(clean2) # {}
      /\ FirstBrand(clean1) # FirstBrand(clean2)

\* C25: brand veto: on a cache miss, when the two clean titles are not
\* equal, each holds a token x-<word> and the first such tokens differ, the
\* title comparator returns exactly 0.0, whatever the prefixes and however
\* alike the rest of the text.
C25_BrandVeto ==
  (/\ ret.op = "_compare_titles"
   /\ CacheMiss(ret.title1, ret.title2)
   /\ BrandsDiffer(ret.title1, ret.title2)) =>
    ret.value = Zero

\* "X-Men: Something" against "X-Force: Something Else" scored 0.0 while the
\* cache holds an entry for another pair
C25_Witness ==
  /\ ret.op = "_compare_titles"
  /\ ret.title1 = T_XMenSomething /\ ret.title2 = T_XForceSomethingElse
  /\ fuzzy_hash # <<>>
  /\ CacheMiss(ret.title1, ret.title2)
  /\ BrandsDiffer(ret.title1, ret.title2)
  /\ ret.value = Zero

(***************************************************************************)
(* Prefix equalization                                                     *)
(***************************************************************************)
\* clean title long is clean title short behind one of the prefixes
LeadingPrefixOnly(long, short) ==
  \E k \in 1..Len(prefixes) : long = prefixes[k] \o <<" ">> \o short

\* C26: on a cache miss two clean titles that differ only by a leading
\* prefix (the, uncanny, all-new, all new, amazing, spectacular) on one side
\* compare as 1.0, and with full indexing, threshold 0.5 and equal issue
\* numbers the pair "Uncanny X-Men" / "X-Men" is the one accepted match.
C26_PrefixEqualized ==
  /\ (/\ ret.op = "_compare_titles"
      /\ CacheMiss(ret.title1, ret.title2)
      /\ \/ LeadingPrefixOnly(ParseOf[ret.title1].clean_title,
                               ParseOf[ret.title2].clean_title)
         \/ LeadingPrefixOnly(ParseOf[ret.title2].clean_title,
                               ParseOf[ret.title1].clean_title)) =>
       ret.value = One
  /\ (/\ ret.op = "match"
      /\ ret.indexer_method \in {"fullindex", "full"}
      /\ ret.source_comics = <<PrefixCatalogue[1]>>
      /\ ret.target_comics = <<PrefixCatalogue[2]>>) =>
       /\ Cardinality(ret.value) = 1
       /\ \A r \in ret.value :
            r.features.title_sim = One /\ r.features.issue_match = One

(***************************************************************************)
(* The rules of extract_issue_number                                       *)
(***************************************************************************)
\* s is made of digits and at most one ".", with a digit at least
PlainNumber(s) ==
  /\ \E i \in 1..Len(s) : IsDigit(s[i])
  /\ \A i \in 1..Len(s) : IsDigit(s[i]) \/ s[i] = "."
  /\ Cardinality({i \in 1..Len(s) : s[i] = "."}) <= 1

\* the positions of the "#" of s that a digit follows
HashStarts(s) ==
  {i \in 1..Len(s) : s[i] = "#" /\ i < Len(s) /\ IsDigit(s[i + 1])}

\* the number behind the "#" at position i: digits, then a "." and further
\* digits if they follow
NumberBehind(s, i) ==
  LET d1  == DigitRun(s, i + 1)
      dot == i + 1 + d1 <= Len(s) /\ s[i + 1 + d1] = "."
      d2  == IF dot THEN DigitRun(s, i + 2 + d1) ELSE 0
  IN  SubSeq(s, i + 1, i + d1 + (IF dot THEN 1 + d2 ELSE 0))

\* the whitespace-separated tokens of s, as pairs <<first, last>> of positions
TokenSpans(s) ==
  {<<b, e>> \in (1..Len(s)) \X (1..Len(s)) :
     /\ b <= e
     /\ \A k \in b..e : ~IsSpace(s[k])
     /\ (b = 1 \/ IsSpace(s[b - 1]))
     /\ (e = Len(s) \/ IsSpace(s[e + 1]))}

\* the last token of s (s has a token)
LastToken(s) ==
  LET span == CHOOSE x \in TokenSpans(s) : \A y \in TokenSpans(s) : y[1] <= x[1]
  IN  SubSeq(s, span[1], span[2])

\* the rules in their order: whole text, first "#" number, last token, absent
IssueNumberByRules(text) ==
  IF PlainNumber(text) THEN text
  ELSE IF HashStarts(text) # {}
  THEN NumberBehind(text, FirstOf(HashStarts(text)))
  ELSE IF TokenSpans(text) # {} /\ PlainNumber(LastToken(text))
  THEN LastToken(text)
  ELSE NoneVal

\* C27: extract_issue_number tries its rules in a fixed order and the first
\* success wins: (1) the whole text is digits with at most one "." and is
\* returned unchanged; (2) the first "#<number>" of the text gives the
\* captured number; (3) the last whitespace-separated token is such a number
\* and is returned; (4) otherwise the result is absent.  A text with both a
\* "#<number>" and a different trailing number yields the "#" number.
C27_IssueRuleOrder ==
  ret.op = "extract_issue_number" =>
    /\ ret.value = IssueNumberByRules(ret.text)
    /\ (/\ HashStarts(ret.text) # {}
        /\ ~PlainNumber(ret.text)
        /\ TokenSpans(ret.text) # {}
        /\ PlainNumber(LastToken(ret.text))) =>
         ret.value = NumberBehind(ret.text, FirstOf(HashStarts(ret.text)))

\* "X-Men #12 3.5": a "#" number and a different trailing number
C27_Witness ==
  /\ ret.op = "extract_issue_number"
  /\ HashStarts(ret.text) # {}
  /\ TokenSpans(ret.text) # {}
  /\ PlainNumber(LastToken(ret.text))
  /\ LastToken(ret.text) # NumberBehind(ret.text, FirstOf(HashStarts(ret.text)))
  /\ ret.value = <<"1", "2">>
  /\ LastToken(ret.text) = <<"3", ".", "5">>

(***************************************************************************)
(* The issue number decides at the default threshold                       *)
(***************************************************************************)
\* every feature score of row r is in [0,1]
FeaturesInUnitInterval(r) ==
  \A col \in DOMAIN r.features : InUnitInterval(r.features[col])

\* no source record and target record of the last call, which was a match
\* call, have the same issue number, present on both
NoSameIssue ==
  \A i \in 1..Len(ret.source_comics), j \in 1..Len(ret.target_comics) :
    ~SameIssue(<<i, j>>)

\* C28: with feature scores in [0,1], no pair whose issue_match is 0.0 is
\* accepted at the default threshold 0.7 (its aggregate is at most 0.7/1.2):
\* every row match returns at threshold 0.7 has issue_match = 1.0, and
\* records with different or absent issue numbers give an empty result.
C28_IssueRequired ==
  (ret.op = "match" /\ ret.threshold = <<7, 10>>) =>
    /\ \A r \in ret.value :
         FeaturesInUnitInterval(r) =>
           /\ r.features.issue_match = One
           /\ SameIssue(<<r.source_idx, r.target_idx>>)
    /\ ((\A k \in DOMAIN fuzzy_hash : InUnitInterval(fuzzy_hash[k]))
          /\ NoSameIssue) => ret.value = {}

\* "X-Men (1991)" #1 against "x-men (1991)" #2 among all pairs: the title and
\* the year agree fully, the issues differ, and the result is empty
C28_Witness ==
  /\ ret.op = "match"
  /\ ret.threshold = <<7, 10>>
  /\ ret.indexer_method = "fullindex"
  /\ NoSameIssue
  /\ \E i \in 1..Len(ret.source_comics), j \in 1..Len(ret.target_comics) :
       /\ Features(LastSource, LastTarget, <<i, j>>).title_sim = One
       /\ Features(LastSource, LastTarget, <<i, j>>).year_sim = One
       /\ Features(LastSource, LastTarget, <<i, j>>).issue_match = Zero
  /\ ret.value = {}

(***************************************************************************)
(* Block indexing loses no match at the default threshold                  *)
(***************************************************************************)
\* the (source, target) pairs of the rows of a returned frame
AcceptedPairs(rows) == {<<r.source_idx, r.target_idx>> : r \in rows}

\* the last call, which was a match call, made with another indexer
MatchedWith(indexer_method) ==
  match(ret.source_comics, ret.target_comics, ret.threshold, indexer_method)

\* C29: at the default threshold 0.7, and at any threshold above 0.7/1.2,
\* with cache values in [0,1], block indexing loses no match: whatever the
\* source and target collections are, the pairs match accepts with block
\* indexing are the pairs it accepts with full indexing.
C29_BlockLosesNothing ==
  (/\ ret.op = "match"
   /\ RGt(ret.threshold, <<7, 12>>)
   /\ \A k \in DOMAIN fuzzy_hash : InUnitInterval(fuzzy_hash[k])) =>
    /\ AcceptedPairs(MatchedWith("block")) = AcceptedPairs(MatchedWith("fullindex"))
    /\ ret.indexer_method \in {"block", "fullindex"} =>
         AcceptedPairs(ret.value) = AcceptedPairs(MatchedWith("fullindex"))

\* "All-New Uncanny X-Men" #142 against "Uncanny X-Men" #142 and #141 with
\* block indexing at 0.7, the cache scoring the two titles 0.9: the main
\* titles begin with different characters, the block index leaves the pair
\* with #141 out, and the pair with #142 is accepted
C29_Witness ==
  /\ ret.op = "match"
  /\ ret.threshold = <<7, 10>>
  /\ ret.indexer_method = "block"
  /\ LastPairs # FullPairs(LastSource, LastTarget)
  /\ \E r \in ret.value :
       ~SameFirstChar(<<r.source_idx, r.target_idx>>)

(***************************************************************************)
(* The entries update_fuzzy_hash touches                                   *)
(***************************************************************************)
\* cache `after` is cache `before` with the entry key set to value and every
\* other entry as it was
OnlyEntryChanged(before, after, key, value) ==
  /\ DOMAIN after = DOMAIN before \cup {key}
  /\ after[key] = value
  /\ \A k \in DOMAIN before \ {key} : after[k] = before[k]

\* C30: update_fuzzy_hash(A, B, s) leaves the cache completely unchanged
\* when the hash-cleaned key of A or of B is empty (a title made only of
\* banned terms, digits or punctuation); otherwise it changes exactly the one
\* entry keyA|keyB, overwriting any earlier value, and no other entry.
C30_UpdateFrame ==
  [][ret'.op = "update_fuzzy_hash" =>
       IF \/ _clean_title_for_hash(ret'.title1) = <<>>
          \/ _clean_title_for_hash(ret'.title2) = <<>>
       THEN fuzzy_hash' = fuzzy_hash
       ELSE OnlyEntryChanged(fuzzy_hash, fuzzy_hash',
                             HashKey(_clean_title_for_hash(ret'.title1),
                                     _clean_title_for_hash(ret'.title2)),
                             ret'.similarity)]_vars

====
